---- MODULE Spec2Model ----
(***************************************************************************)
(* A model of the typst front end: the tree-walking evaluator              *)
(* (src/src/eval/mod.rs) and the markup/code parser                        *)
(* (src/src/parse/mod.rs), whose trees the evaluator walks.                *)
(*                                                                         *)
(* The evaluator is a recursive walk over a syntax tree that threads a Vm  *)
(* (pending flow, scope stack) through every call.  Each Rust function is  *)
(* an operator of the same name taking the Vm and returning the Vm it      *)
(* leaves behind together with the SourceResult; `?` is the propagation    *)
(* of a result whose st is not "Ok".                                       *)
(***************************************************************************)
EXTENDS Integers, Sequences, FiniteSets, TLC

VARIABLES
    call,     \* the entry point that is applied: "eval", "eval_markup", ...
    world,    \* World: source id -> root markup children of that source
    input,    \* the argument of the call: node list, expression or source id
    vm,       \* the Vm the call runs on: flow, scopes, route and a trace
    result,   \* the SourceResult of the call
    pc        \* "idle" at first, "parsed" or "loaded" once a source is
              \* there, "done" after the call returned

vars == <<call, world, input, vm, result, pc>>

----------------------------------------------------------------------------
(* Bounds of the model.                                                    *)

\* Longest node list enumerated for a block given to eval_markup/eval_code.
MaxLen == 3
\* Iterations after which a while loop is cut off as diverging.
MaxIter == 3
\* Nesting of eval calls at which the host's native stack is taken to be
\* exhausted.
MaxDepth == 4
\* Number of sources in the import graphs.
MaxSources == 3

----------------------------------------------------------------------------
(* Values (value.rs), content (model/content.rs) and errors.               *)

NoneV == [t |-> "None"]
AutoV == [t |-> "Auto"]
IntV(n) == [t |-> "Int", int |-> n]
BoolV(b) == [t |-> "Bool", bool |-> b]
StrV(s) == [t |-> "Str", str |-> s]
ContentV(c) == [t |-> "Content", content |-> c]
ArrayV(xs) == [t |-> "Array", items |-> xs]
FuncV(n) == [t |-> "Func", func |-> n]
StyleMapV(es) == [t |-> "StyleMap", entries |-> es]
RecipeV(p, b) == [t |-> "Recipe", pattern |-> p, recipe |-> b]
ModuleV(s, c) == [t |-> "Module", scope |-> s, mcontent |-> c]
FloatV(n, d) == [t |-> "Float", num |-> n, den |-> d]
\* A dictionary is a function from its keys, which are texts, to values.
DictV(d) == [t |-> "Dict", dict |-> d]
\* An argument: its name, if it has one, and its value.
Arg(name, v) == [name |-> name, value |-> v]
ArgsV(items) == [t |-> "Args", items |-> items]

\* The keys of the dictionaries of the model, in the order of the map.
Keys == <<(<<"j">>), (<<"k">>), (<<"z">>)>>

\* The key a field name or a string stands for.
KeyOf(name) == <<name>>

\* Dict::into_iter: the entries in the order of the keys.
DictItems(d) ==
    LET present == SelectSeq(Keys, LAMBDA k : k \in DOMAIN d)
    IN [i \in 1 .. Len(present) |-> Arg(<<StrV(present[i])>>, d[present[i]])]

Empty == [t |-> "Empty"]
TextC(s) == [t |-> "Text", text |-> s]
SequenceC(xs) == [t |-> "Sequence", seq |-> xs]
StyledC(c, e) == [t |-> "Styled", sub |-> c, entry |-> e]
ShowC(n, c) == [t |-> "Show", shown |-> n, sub |-> c]

ErrV(msg, span) == [t |-> "Error", msg |-> msg, at |-> span]

Ok(v, m) == [st |-> "Ok", v |-> v, vm |-> m]
Err(msg, span, m) == [st |-> "Err", v |-> ErrV(msg, span), vm |-> m]
\* The call did not return within the bounds of the model.
Div(m) == [st |-> "Div", v |-> ErrV("diverges", <<>>), vm |-> m]

\* The elements of xs with the elements that are sequences spliced in.
RECURSIVE Flatten(_)
Flatten(xs) ==
    IF Len(xs) = 0 THEN <<>>
    ELSE (IF xs[1].t = "Sequence" THEN Flatten(xs[1].seq) ELSE <<xs[1]>>)
         \o Flatten(Tail(xs))

\* Content::sequence: nested sequences are flattened.
ContentSequence(xs) ==
    LET flat == Flatten(xs)
    IN IF Len(flat) = 0 THEN Empty
       ELSE IF Len(flat) = 1 THEN flat[1]
       ELSE SequenceC(flat)

\* Content::styled_with_map / Content::styled_with_entry: wrap, never mutate.
styled_with_map(c, styles) == StyledC(c, styles)
styled_with_entry(c, entry) == StyledC(c, entry)

\* The decimal form of the small integers the model computes with.  Text
\* is a sequence of one-character strings throughout.
IntText(n) ==
    IF n < 0 THEN <<"-">>
    ELSE IF n < 10
    THEN <<(<<"0", "1", "2", "3", "4", "5", "6", "7", "8", "9">>)[n + 1]>>
    ELSE <<"9", "+">>

\* Value::display.
display(v) ==
    CASE v.t = "None" -> Empty
      [] v.t = "Int" -> TextC(IntText(v.int))
      [] v.t = "Str" -> TextC(v.str)
      [] v.t = "Content" -> v.content
      [] OTHER -> TextC(<<v.t>>)

\* ops::join.
join(a, b) ==
    CASE b.t = "None" -> [ok |-> TRUE, v |-> a]
      [] a.t = "None" -> [ok |-> TRUE, v |-> b]
      [] a.t = "Str" /\ b.t = "Str" ->
            [ok |-> TRUE, v |-> StrV(a.str \o b.str)]
      [] a.t = "Content" /\ b.t = "Content" ->
            [ok |-> TRUE, v |-> ContentV(SequenceC(<<a.content, b.content>>))]
      [] a.t = "Content" /\ b.t = "Str" ->
            [ok |-> TRUE, v |-> ContentV(SequenceC(<<a.content, TextC(b.str)>>))]
      [] a.t = "Str" /\ b.t = "Content" ->
            [ok |-> TRUE, v |-> ContentV(SequenceC(<<TextC(a.str), b.content>>))]
      [] a.t = "Array" /\ b.t = "Array" ->
            [ok |-> TRUE, v |-> ArrayV(a.items \o b.items)]
      [] OTHER -> [ok |-> FALSE, v |-> NoneV]

----------------------------------------------------------------------------
(* Flow (vm.rs): the pending control-flow signal of a Vm.                  *)

NoFlow == [t |-> "NoFlow"]
BreakF(span) == [t |-> "Break", span |-> span]
ContinueF(span) == [t |-> "Continue", span |-> span]
ReturnF(span, ret) == [t |-> "Return", span |-> span, ret |-> ret]

\* Flow::forbidden.
forbidden(flow) ==
    ErrV(CASE flow.t = "Break" -> "break is not allowed here"
           [] flow.t = "Continue" -> "continue is not allowed here"
           [] OTHER -> "return is not allowed here",
         flow.span)

----------------------------------------------------------------------------
(* Scopes (scope.rs): a top frame, the stack of the frames below it and    *)
(* the standard library as the read-only base.                             *)

EmptyScope == [n \in {} |-> NoneV]
StdScope == ("text" :> FuncV("text")) @@ ("par" :> FuncV("par")) @@ EmptyScope

\* Scopes::new.
ScopesNew == [top |-> EmptyScope, scopes |-> <<>>]

\* Scopes::enter.
ScopesEnter(s) == [top |-> EmptyScope, scopes |-> Append(s.scopes, s.top)]

\* Scopes::exit.
ScopesExit(s) ==
    [top |-> s.scopes[Len(s.scopes)],
     scopes |-> SubSeq(s.scopes, 1, Len(s.scopes) - 1)]

\* Scope::define on the top frame.
ScopeDefine(s, name, v) ==
    [s EXCEPT !.top = (name :> v) @@ s.top]

\* The frames from the innermost one outwards, without the base.
Frames(s) == <<s.top>> \o [i \in 1 .. Len(s.scopes) |-> s.scopes[Len(s.scopes) + 1 - i]]

\* Index into Frames(s) of the innermost frame that binds the name, 0 if
\* no frame does.
FrameOf(s, name) ==
    LET fs == Frames(s)
        hits == {i \in 1 .. Len(fs) : name \in DOMAIN fs[i]}
    IN IF hits = {} THEN 0 ELSE CHOOSE i \in hits : \A j \in hits : i <= j

\* Scopes::get.
ScopesGet(s, name) ==
    LET k == FrameOf(s, name)
    IN IF k > 0 THEN [ok |-> TRUE, v |-> Frames(s)[k][name]]
       ELSE IF name \in DOMAIN StdScope THEN [ok |-> TRUE, v |-> StdScope[name]]
       ELSE [ok |-> FALSE, v |-> NoneV]

\* Scopes::get_mut followed by a store through the returned reference.
ScopesSet(s, name, v) ==
    LET k == FrameOf(s, name)
        n == Len(s.scopes)
    IN IF k = 1 THEN [s EXCEPT !.top = [@ EXCEPT ![name] = v]]
       ELSE [s EXCEPT !.scopes[n + 2 - k] = [@ EXCEPT ![name] = v]]

----------------------------------------------------------------------------
(* The Vm (vm.rs) and the Route.  `trace` and `stack` are history          *)
(* variables: the log of the nodes whose evaluation was entered and left   *)
(* (with the flow pending at that moment), and the ids of the eval calls   *)
(* in progress.                                                            *)

\* Route::new(None).
RouteNew == <<>>

\* Route::insert.
RouteInsert(outer, id) == <<id>> \o outer

\* Only the source itself is looked at, not its importing ancestors.
RouteContains_selfOnly(route, id) == Len(route) > 0 /\ route[1] = id

\* Route::contains.
RouteContains(route, id) == \E i \in 1 .. Len(route) : route[i] = id

\* Vm::new.
VmNew(route, id, scopes, trace, stack) ==
    [flow |-> NoFlow, scopes |-> scopes, route |-> route, location |-> id,
     trace |-> trace, stack |-> stack]

Log(m, ph, p) ==
    [m EXCEPT !.trace = Append(@, [ph |-> ph, p |-> p, flow |-> m.flow])]

\* The root markup of a source has been evaluated with status st.
LogRoot(m, p, st) ==
    [m EXCEPT !.trace = Append(@, [ph |-> "root", p |-> p, flow |-> m.flow,
                                   st |-> st, route |-> m.route])]

LogImport(m, p, id, outcome) ==
    [m EXCEPT !.trace = Append(@, [ph |-> "import", p |-> p, flow |-> m.flow,
                                   target |-> id, stack |-> m.stack,
                                   route |-> m.route, outcome |-> outcome])]

----------------------------------------------------------------------------
(* Syntax tree nodes (syntax/ast.rs), as far as the evaluator tells them   *)
(* apart.  An optional child is a sequence of length 0 or 1.               *)

Text(s) == [t |-> "Text", text |-> s]
Space == [t |-> "Space"]
Strong(ns) == [t |-> "Strong", nodes |-> ns]
Lit(v) == [t |-> "Lit", val |-> v]
Ident(n) == [t |-> "Ident", name |-> n]
CodeBlock(xs) == [t |-> "Code", exprs |-> xs]
ContentBlock(ns) == [t |-> "Content", nodes |-> ns]
ArrayExpr(xs) == [t |-> "Array", exprs |-> xs]
LetBinding(n, init) == [t |-> "Let", name |-> n, init |-> init]
SetRule(n, args) == [t |-> "Set", name |-> n, exprs |-> args]
ShowRule(pat, b) == [t |-> "Show", pattern |-> pat, body |-> b]
WrapRule(n, b) == [t |-> "Wrap", name |-> n, body |-> b]
Assign(n, rhs) == [t |-> "Assign", name |-> n, rhs |-> rhs]
WhileLoop(c, b) == [t |-> "While", cond |-> c, body |-> b]
ForLoop(k, v, it, b) == [t |-> "For", key |-> k, value |-> v, iter |-> it, body |-> b]
ModuleImport(id, names) == [t |-> "Import", target |-> id, imports |-> names]
ModuleInclude(id) == [t |-> "Include", target |-> id]
BreakStmt == [t |-> "Break"]
ContinueStmt == [t |-> "Continue"]
ReturnStmt(b) == [t |-> "Return", init |-> b]
Parbreak == [t |-> "Parbreak"]
Unary(op, e) == [t |-> "Unary", op |-> op, expr |-> e]
Binary(op, l, r) == [t |-> "Binary", op |-> op, lhs |-> l, rhs |-> r]
Parenthesized(e) == [t |-> "Parenthesized", expr |-> e]
FieldAccess(target, field) == [t |-> "FieldAccess", target |-> target, field |-> field]
FuncCall(callee, args) == [t |-> "FuncCall", callee |-> callee, args |-> args]
MethodCall(target, method, args) ==
    [t |-> "MethodCall", target |-> target, method |-> method, args |-> args]
\* The items of an argument list.
ArgPos(e) == [kind |-> "Pos", name |-> <<>>, expr |-> e]
ArgNamed(n, e) == [kind |-> "Named", name |-> <<n>>, expr |-> e]
ArgSpread(e) == [kind |-> "Spread", name |-> <<>>, expr |-> e]

----------------------------------------------------------------------------
(* The evaluator (eval/mod.rs).                                            *)
(*                                                                         *)
(* `p` is the span of the node at hand, given as its path of child indices *)
(* from the root; the children of a block at p are at p \o <<i>>.  A node  *)
(* iterator is the node list and the index of the next node, so that the   *)
(* recursive calls of eval_markup and eval_code on the tail share it with  *)
(* their caller as they do in the source.                                  *)

RECURSIVE eval(_, _, _, _, _)
RECURSIVE eval_markup(_, _, _, _), markup_loop(_, _, _, _, _)
RECURSIVE eval_code(_, _, _, _), code_loop(_, _, _, _, _)
RECURSIVE MarkupNode_eval(_, _, _), Expr_eval(_, _, _), Expr_dispatch(_, _, _)
RECURSIVE eval_items(_, _, _, _, _)
RECURSIVE Unary_eval(_, _, _), Binary_eval(_, _, _)
RECURSIVE WhileLoop_loop(_, _, _, _, _), ForLoop_iter(_, _, _, _, _, _)
RECURSIVE Args_eval(_, _, _, _, _), Access(_, _, _)
RECURSIVE FieldAccess_eval(_, _, _), FuncCall_eval(_, _, _), MethodCall_eval(_, _, _)
RECURSIVE Binary_assign(_, _, _)

\* The saved flow is dropped.
RestoreFlow_dropped(saved, current) == current

\* `if flow.is_some() { vm.flow = flow; }` at the end of eval_markup,
\* eval_code, WhileLoop::eval and ForLoop::eval.
RestoreFlow(saved, current) == IF saved # NoFlow THEN saved ELSE current

\* The `match vm.flow` at the end of a loop iteration: the flow left
\* pending and whether the loop is left.
LoopFlow(flow) ==
    CASE flow.t = "Break" -> [flow |-> NoFlow, brk |-> TRUE]
      [] flow.t = "Continue" -> [flow |-> NoFlow, brk |-> FALSE]
      [] flow.t = "Return" -> [flow |-> flow, brk |-> TRUE]
      [] OTHER -> [flow |-> flow, brk |-> FALSE]

\* The flow raised last replaces the one pending.
RaiseFlow_lastWins(m, flow) == [m EXCEPT !.flow = flow]

\* BreakStmt::eval, ContinueStmt::eval and the store of ReturnStmt::eval.
RaiseFlow(m, flow) == IF m.flow = NoFlow THEN [m EXCEPT !.flow = flow] ELSE m

\* The loops never look at the pending flow.
FlowPending_never(m) == FALSE

\* `if vm.flow.is_some() { break; }` in the loops of eval_markup and
\* eval_code.
FlowPending(m) == m.flow # NoFlow

\* The result of an iterator-driven block: the SourceResult and the index
\* of the next node of the iterator.
At(r, i) == [st |-> r.st, v |-> r.v, vm |-> r.vm, i |-> i]
Plain(r) == [st |-> r.st, v |-> r.v, vm |-> r.vm]
\* The same for a child at np that did not return a value.
Failed(r, i, np) == At([r EXCEPT !.vm = Log(r.vm, "fail", np)], i)

\* Evaluate the expressions xs[k..] in order, collecting their values.
eval_items(m, xs, k, p, acc) ==
    LET collect(r) == IF r.st # "Ok" THEN r
                      ELSE eval_items(r.vm, xs, k + 1, p, Append(acc, r.v))
    IN IF k > Len(xs) THEN Ok(ArrayV(acc), m)
       ELSE collect(Expr_eval(m, xs[k], p \o <<k>>))

\* The style map goes over everything emitted so far as well.
PushStyled_all(seq, tail, styles) ==
    <<styled_with_map(ContentSequence(Append(seq, tail)), styles)>>

\* `seq.push(eval_markup(vm, nodes)?.styled_with_map(styles))`.
PushStyled(seq, tail, styles) == Append(seq, styled_with_map(tail, styles))

\* SetRule::eval.
SetRule_eval(m, e, p) ==
    LET styles(target, args) ==
            IF args.st # "Ok" THEN args
            ELSE Ok(StyleMapV(<<[func |-> target.v.func, args |-> args.v.items]>>),
                    args.vm)
        apply(target) ==
            IF ~target.ok THEN Err("unknown variable", p, m)
            ELSE IF target.v.t # "Func" THEN Err("expected function", p, m)
            ELSE styles(target, eval_items(m, e.exprs, 1, p, <<>>))
    IN apply(ScopesGet(m.scopes, e.name))

\* ShowRule::eval.
ShowRule_eval(m, e, p) ==
    LET recipe(pattern) ==
            IF pattern.st # "Ok" THEN pattern
            ELSE IF pattern.v.t \notin {"Str", "Func"}
            THEN Err("expected pattern", p \o <<1>>, pattern.vm)
            ELSE Ok(RecipeV(pattern.v, e.body), pattern.vm)
    IN recipe(Expr_eval(m, e.pattern, p \o <<1>>))

\* The wrap rule binds nothing.
wrap_define_skipped(m, name, tail) == m
\* `vm.scopes.top.define(wrap.binding().take(), tail)` of the wrap rule.
wrap_define(m, name, tail) == [m EXCEPT !.scopes = ScopeDefine(@, name, tail)]

\* eval_markup: lines 149-150 and 185-189 around the loop.
eval_markup(m, nodes, i, p) ==
    LET flow == m.flow
        finish(r) ==
            IF r.st # "Ok" THEN r
            ELSE At(Ok(ContentSequence(r.v),
                       [r.vm EXCEPT !.flow = RestoreFlow(flow, r.vm.flow)]), r.i)
    IN finish(markup_loop([m EXCEPT !.flow = NoFlow], nodes, i, p, <<>>))

\* The `while let Some(node) = nodes.next()` loop of eval_markup; seq is
\* the vector built so far.
markup_loop(m, nodes, i, p, seq) ==
    IF i > Len(nodes) THEN [st |-> "Ok", v |-> seq, vm |-> m, i |-> i]
    ELSE
      LET node == nodes[i]
          np == p \o <<i>>
          entered == Log(m, "enter", np)
          brk(mm, k) == [st |-> "Ok", v |-> seq, vm |-> mm, i |-> k]
          \* seq.push(..) and the flow check after it.
          pushed(next, mm, k) ==
              IF FlowPending(mm)
              THEN [st |-> "Ok", v |-> next, vm |-> mm, i |-> k]
              ELSE markup_loop(mm, nodes, k, p, next)
          push(c, mm, k) == pushed(Append(seq, c), mm, k)
          \* The set rule: styles, then the tail styled with them.
          set_tail(styles, tail) ==
              IF tail.st # "Ok" THEN Failed(tail, tail.i, np)
              ELSE pushed(PushStyled(seq, tail.v, styles.v),
                          Log(tail.vm, "exit", np), tail.i)
          set_rule(styles) ==
              IF styles.st # "Ok" THEN Failed(styles, i + 1, np)
              ELSE IF FlowPending(styles.vm)
              THEN brk(Log(styles.vm, "exit", np), i + 1)
              ELSE set_tail(styles, eval_markup(styles.vm, nodes, i + 1, p))
          \* The show rule: recipe, then the tail styled with it.
          show_tail(recipe, tail) ==
              IF tail.st # "Ok" THEN Failed(tail, tail.i, np)
              ELSE push(styled_with_entry(tail.v, recipe.v),
                        Log(tail.vm, "exit", np), tail.i)
          show_rule(recipe) ==
              IF recipe.st # "Ok" THEN Failed(recipe, i + 1, np)
              ELSE IF FlowPending(recipe.vm)
              THEN brk(Log(recipe.vm, "exit", np), i + 1)
              ELSE show_tail(recipe, eval_markup(recipe.vm, nodes, i + 1, p))
          \* The wrap rule: the tail, then the body with the tail bound.
          wrap_body(tail, body) ==
              IF body.st # "Ok" THEN Failed(body, tail.i, np)
              ELSE push(display(body.v), Log(body.vm, "exit", np), tail.i)
          wrap_rule(tail) ==
              IF tail.st # "Ok" THEN Failed(tail, tail.i, np)
              ELSE wrap_body(tail,
                     Expr_eval(wrap_define(tail.vm, node.name, ContentV(tail.v)),
                               node.body, np \o <<1>>))
          other(r) == IF r.st # "Ok" THEN Failed(r, i + 1, np)
                      ELSE push(r.v, r.vm, i + 1)
      IN CASE node.t = "Set" -> set_rule(SetRule_eval(entered, node, np))
           [] node.t = "Show" -> show_rule(ShowRule_eval(entered, node, np))
           [] node.t = "Wrap" -> wrap_rule(eval_markup(entered, nodes, i + 1, p))
           [] OTHER -> other(MarkupNode_eval(m, node, np))

\* MarkupNode::eval.
MarkupNode_eval(m, node, p) ==
    LET entered == Log(m, "enter", p)
        strong_node(body) ==
            IF body.st # "Ok" THEN Plain(body)
            ELSE Ok(ShowC("strong", body.v), body.vm)
        shown(x) == IF x.st # "Ok" THEN x ELSE Ok(display(x.v), x.vm)
        left(r) == IF r.st # "Ok" THEN r ELSE Ok(r.v, Log(r.vm, "exit", p))
    IN left(CASE node.t = "Text" -> Ok(TextC(node.text), entered)
              [] node.t = "Space" -> Ok([t |-> "Space"], entered)
              [] node.t = "Parbreak" -> Ok([t |-> "Parbreak"], entered)
              [] node.t = "Strong" ->
                    strong_node(eval_markup(entered, node.nodes, 1, p))
              [] OTHER -> shown(Expr_dispatch(entered, node, p)))

\* eval_code: lines 551-552 and 592-596 around the loop.
eval_code(m, exprs, i, p) ==
    LET flow == m.flow
        finish(r) ==
            IF r.st # "Ok" THEN r
            ELSE At(Ok(r.v, [r.vm EXCEPT !.flow = RestoreFlow(flow, r.vm.flow)]),
                    r.i)
    IN finish(code_loop([m EXCEPT !.flow = NoFlow], exprs, i, p, NoneV))

\* The `while let Some(expr) = exprs.next()` loop of eval_code.
code_loop(m, exprs, i, p, output) ==
    IF i > Len(exprs) THEN [st |-> "Ok", v |-> output, vm |-> m, i |-> i]
    ELSE
      LET expr == exprs[i]
          np == p \o <<i>>
          entered == Log(m, "enter", np)
          brk(mm, k) == [st |-> "Ok", v |-> output, vm |-> mm, i |-> k]
          \* `output = ops::join(output, value).at(span)?` and the flow check.
          join_to(j, mm, k) ==
              IF ~j.ok THEN Failed(Err("cannot join", np, mm), k, np)
              ELSE IF FlowPending(mm)
              THEN [st |-> "Ok", v |-> j.v, vm |-> mm, i |-> k]
              ELSE code_loop(mm, exprs, k, p, j.v)
          joined(value, mm, k) == join_to(join(output, value), mm, k)
          \* The set rule: styles, then the tail styled with them.
          set_tail(styles, tail) ==
              IF tail.st # "Ok" THEN Failed(tail, tail.i, np)
              ELSE joined(ContentV(styled_with_map(display(tail.v), styles.v)),
                          Log(tail.vm, "exit", np), tail.i)
          set_rule(styles) ==
              IF styles.st # "Ok" THEN Failed(styles, i + 1, np)
              ELSE IF FlowPending(styles.vm)
              THEN brk(Log(styles.vm, "exit", np), i + 1)
              ELSE set_tail(styles, eval_code(styles.vm, exprs, i + 1, p))
          \* The show rule: recipe, then the tail styled with it.
          show_tail(recipe, tail) ==
              IF tail.st # "Ok" THEN Failed(tail, tail.i, np)
              ELSE joined(ContentV(styled_with_entry(display(tail.v), recipe.v)),
                          Log(tail.vm, "exit", np), tail.i)
          show_rule(recipe) ==
              IF recipe.st # "Ok" THEN Failed(recipe, i + 1, np)
              ELSE IF FlowPending(recipe.vm)
              THEN brk(Log(recipe.vm, "exit", np), i + 1)
              ELSE show_tail(recipe, eval_code(recipe.vm, exprs, i + 1, p))
          \* The wrap rule: the tail, then the body with the tail bound.
          wrap_body(tail, body) ==
              IF body.st # "Ok" THEN Failed(body, tail.i, np)
              ELSE joined(body.v, Log(body.vm, "exit", np), tail.i)
          wrap_rule(tail) ==
              IF tail.st # "Ok" THEN Failed(tail, tail.i, np)
              ELSE wrap_body(tail,
                     Expr_eval(wrap_define(tail.vm, expr.name, tail.v),
                               expr.body, np \o <<1>>))
          other(r) == IF r.st # "Ok" THEN Failed(r, i + 1, np)
                      ELSE joined(r.v, r.vm, i + 1)
      IN CASE expr.t = "Set" -> set_rule(SetRule_eval(entered, expr, np))
           [] expr.t = "Show" -> show_rule(ShowRule_eval(entered, expr, np))
           [] expr.t = "Wrap" -> wrap_rule(eval_code(entered, exprs, i + 1, p))
           [] OTHER -> other(Expr_eval(m, expr, np))

\* Expr::eval, with the entry and exit of the expression logged.
Expr_eval(m, e, p) ==
    LET left(r) == IF r.st # "Ok" THEN r ELSE Ok(r.v, Log(r.vm, "exit", p))
    IN left(Expr_dispatch(Log(m, "enter", p), e, p))

\* The scope of the block is never left.
CodeBlock_eval_noExit(m, e, p) ==
    Plain(eval_code([m EXCEPT !.scopes = ScopesEnter(@)], e.exprs, 1, p))

\* CodeBlock::eval.
CodeBlock_eval(m, e, p) ==
    LET exit(output) ==
            IF output.st # "Ok" THEN Plain(output)
            ELSE Ok(output.v, [output.vm EXCEPT !.scopes = ScopesExit(@)])
    IN exit(eval_code([m EXCEPT !.scopes = ScopesEnter(@)], e.exprs, 1, p))

\* ContentBlock::eval.
ContentBlock_eval(m, e, p) ==
    LET exit(content) ==
            IF content.st # "Ok" THEN Plain(content)
            ELSE Ok(ContentV(content.v),
                    [content.vm EXCEPT !.scopes = ScopesExit(@)])
    IN exit(eval_markup([m EXCEPT !.scopes = ScopesEnter(@)], e.nodes, 1, p))

\* LetBinding::eval.
LetBinding_eval(m, e, p) ==
    LET define(value) ==
            IF value.st # "Ok" THEN value
            ELSE Ok(NoneV, [value.vm EXCEPT !.scopes =
                              ScopeDefine(@, e.name, value.v)])
    IN define(IF Len(e.init) = 1 THEN Expr_eval(m, e.init[1], p \o <<1>>)
              ELSE Ok(NoneV, m))

\* Binary::assign for `=` with an identifier on the left: the right-hand
\* side first, then Access for Ident (Scopes::get_mut).
Assign_eval(m, e, p) ==
    LET assign(rhs) ==
            IF rhs.st # "Ok" THEN rhs
            ELSE IF FrameOf(rhs.vm.scopes, e.name) = 0
            THEN Err(IF e.name \in DOMAIN StdScope THEN "cannot mutate a constant"
                     ELSE "unknown variable", p \o <<1>>, rhs.vm)
            ELSE Ok(NoneV, [rhs.vm EXCEPT !.scopes = ScopesSet(@, e.name, rhs.v)])
    IN assign(Expr_eval(m, e.rhs, p \o <<2>>))

\* The loop of WhileLoop::eval; n counts the iterations done.
WhileLoop_loop(m, e, p, output, n) ==
    LET \* The end of an iteration: the join and the `match vm.flow`.
        iterated(value, j, lf) ==
            IF ~j.ok THEN Err("cannot join", p \o <<2>>, value.vm)
            ELSE IF lf.brk THEN Ok(j.v, [value.vm EXCEPT !.flow = lf.flow])
            ELSE WhileLoop_loop([value.vm EXCEPT !.flow = lf.flow], e, p, j.v,
                                n + 1)
        body(value) ==
            IF value.st # "Ok" THEN value
            ELSE iterated(value, join(output, value.v), LoopFlow(value.vm.flow))
        test(condition) ==
            IF condition.st # "Ok" THEN condition
            ELSE IF condition.v.t # "Bool"
            THEN Err("expected boolean", p \o <<1>>, condition.vm)
            ELSE IF ~condition.v.bool THEN Ok(output, condition.vm)
            ELSE IF n >= MaxIter THEN Div(condition.vm)
            ELSE body(Expr_eval(condition.vm, e.body, p \o <<2>>))
    IN test(Expr_eval(m, e.cond, p \o <<1>>))

\* WhileLoop::eval.
WhileLoop_eval(m, e, p) ==
    LET flow == m.flow
        finish(r) ==
            IF r.st # "Ok" THEN r
            ELSE Ok(r.v, [r.vm EXCEPT !.flow = RestoreFlow(flow, r.vm.flow)])
    IN finish(WhileLoop_loop([m EXCEPT !.flow = NoFlow], e, p, NoneV, 0))

\* The expansion of the iter! macro of ForLoop::eval: items are the
\* tuples of values the iterator yields, names the bindings they go to.
ForLoop_iter(m, e, p, names, items, output) ==
    LET \* The end of an iteration: the join and the `match vm.flow`.
        iterated(value, j, lf) ==
            IF ~j.ok THEN Err("cannot join", p \o <<2>>, value.vm)
            ELSE IF lf.brk THEN Ok(j.v, [value.vm EXCEPT !.flow = lf.flow])
            ELSE ForLoop_iter([value.vm EXCEPT !.flow = lf.flow], e, p, names,
                              Tail(items), j.v)
        body(value) ==
            IF value.st # "Ok" THEN value
            ELSE iterated(value, join(output, value.v), LoopFlow(value.vm.flow))
        bound(item) ==
            [m EXCEPT !.scopes =
                IF Len(names) = 2
                THEN ScopeDefine(ScopeDefine(@, names[1], item[1]),
                                 names[2], item[2])
                ELSE ScopeDefine(@, names[1], item[1])]
    IN IF Len(items) = 0 THEN Ok(output, m)
       ELSE body(Expr_eval(bound(items[1]), e.body, p \o <<2>>))

\* The iterator of a loop with the pattern `value` over an args pack:
\* the values of the arguments without a name.
ArgsValues(items) ==
    LET positional == SelectSeq(items, LAMBDA arg : arg.name = <<>>)
    IN [k \in 1 .. Len(positional) |-> <<positional[k].value>>]

\* Only the arguments with a name are yielded.
ArgsPairs_namedOnly(items) ==
    LET named == SelectSeq(items, LAMBDA arg : arg.name # <<>>)
    IN [k \in 1 .. Len(named) |-> <<named[k].name[1], named[k].value>>]

\* The iterator of a loop with the pattern `key, value` over an args pack:
\* every argument, with its name or none as the key.
ArgsPairs(items) ==
    [k \in 1 .. Len(items) |->
        <<IF items[k].name = <<>> THEN NoneV ELSE items[k].name[1],
          items[k].value>>]

\* ForLoop::eval.
ForLoop_eval(m, e, p) ==
    LET flow == m.flow
        hasKey == Len(e.key) = 1
        finish(r) ==
            IF r.st # "Ok" THEN r
            ELSE Ok(r.v, [r.vm EXCEPT !.flow = RestoreFlow(flow, r.vm.flow),
                                       !.scopes = ScopesExit(@)])
        loop(iter) ==
            IF iter.st # "Ok" THEN iter
            ELSE CASE ~hasKey /\ iter.v.t = "Str" ->
                        ForLoop_iter(iter.vm, e, p, <<e.value>>,
                            [k \in 1 .. Len(iter.v.str) |-> <<StrV(<<iter.v.str[k]>>)>>],
                            NoneV)
                   [] ~hasKey /\ iter.v.t = "Array" ->
                        ForLoop_iter(iter.vm, e, p, <<e.value>>,
                            [k \in 1 .. Len(iter.v.items) |-> <<iter.v.items[k]>>],
                            NoneV)
                   [] hasKey /\ iter.v.t = "Array" ->
                        ForLoop_iter(iter.vm, e, p, <<e.key[1], e.value>>,
                            [k \in 1 .. Len(iter.v.items) |->
                                <<IntV(k - 1), iter.v.items[k]>>],
                            NoneV)
                   [] ~hasKey /\ iter.v.t = "Dict" ->
                        ForLoop_iter(iter.vm, e, p, <<e.value>>,
                            [k \in 1 .. Len(DictItems(iter.v.dict)) |->
                                <<DictItems(iter.v.dict)[k].value>>],
                            NoneV)
                   [] hasKey /\ iter.v.t = "Dict" ->
                        ForLoop_iter(iter.vm, e, p, <<e.key[1], e.value>>,
                            [k \in 1 .. Len(DictItems(iter.v.dict)) |->
                                <<DictItems(iter.v.dict)[k].name[1],
                                  DictItems(iter.v.dict)[k].value>>],
                            NoneV)
                   [] ~hasKey /\ iter.v.t = "Args" ->
                        ForLoop_iter(iter.vm, e, p, <<e.value>>,
                            ArgsValues(iter.v.items), NoneV)
                   [] hasKey /\ iter.v.t = "Args" ->
                        ForLoop_iter(iter.vm, e, p, <<e.key[1], e.value>>,
                            ArgsPairs(iter.v.items), NoneV)
                   [] iter.v.t = "Str" ->
                        Err("mismatched pattern", p, iter.vm)
                   [] OTHER -> Err("cannot loop over", p \o <<1>>, iter.vm)
    IN finish(loop(Expr_eval([m EXCEPT !.flow = NoFlow,
                                       !.scopes = ScopesEnter(@)],
                             e.iter, p \o <<1>>)))

\* The route is not looked at before the source is evaluated.
import_unchecked(m, id, p) ==
    LET back(module) ==
            [st |-> module.st, v |-> module.v,
             vm |-> [m EXCEPT !.trace = module.vm.trace]]
    IN IF id \notin DOMAIN world
       THEN Err("file not found", p, LogImport(m, p, id, "missing"))
       ELSE back(eval(m.route, id, LogImport(m, p, id, "eval").trace,
                      m.stack, p))

\* import.
import(m, id, p) ==
    LET back(module) ==
            [st |-> module.st, v |-> module.v,
             vm |-> [m EXCEPT !.trace = module.vm.trace]]
    IN IF id \notin DOMAIN world
       THEN Err("file not found", p, LogImport(m, p, id, "missing"))
       ELSE IF RouteContains(m.route, id)
       THEN Err("cyclic import", p, LogImport(m, p, id, "cyclic"))
       ELSE back(eval(m.route, id, LogImport(m, p, id, "eval").trace,
                      m.stack, p))

\* ModuleImport::eval; imports is "*" or the list of imported names.
ModuleImport_eval(m, e, p) ==
    LET bind(module) ==
            LET RECURSIVE items(_, _)
                items(mm, k) ==
                    IF k > Len(e.imports) THEN Ok(NoneV, mm)
                    ELSE IF e.imports[k] \in DOMAIN module.v.scope
                    THEN items([mm EXCEPT !.scopes =
                                  ScopeDefine(@, e.imports[k],
                                              module.v.scope[e.imports[k]])],
                               k + 1)
                    ELSE Err("unresolved import", p, mm)
            IN IF module.st # "Ok" THEN module
               ELSE IF e.imports = <<"*">>
               THEN Ok(NoneV, [module.vm EXCEPT !.scopes.top = module.v.scope @@ @])
               ELSE items(module.vm, 1)
    IN bind(import(m, e.target, p \o <<1>>))

\* ModuleInclude::eval.
ModuleInclude_eval(m, e, p) ==
    LET content(module) ==
            IF module.st # "Ok" THEN module
            ELSE Ok(ContentV(module.v.mcontent), module.vm)
    IN content(import(m, e.target, p \o <<1>>))

\* ReturnStmt::eval.
ReturnStmt_eval(m, e, p) ==
    LET return(value) ==
            IF value.st # "Ok" THEN value
            ELSE Ok(NoneV, RaiseFlow(value.vm,
                        ReturnF(p, IF Len(e.init) = 1 THEN <<value.v>> ELSE <<>>)))
    IN return(IF Len(e.init) = 1 THEN Expr_eval(m, e.init[1], p \o <<1>>)
              ELSE Ok(NoneV, m))

\* ops::pos and ops::neg on the values of the model.
ops_unary(op, v) ==
    IF v.t # "Int" THEN [ok |-> FALSE, v |-> NoneV]
    ELSE [ok |-> TRUE, v |-> IntV(IF op = "Neg" THEN 0 - v.int ELSE v.int)]

\* ops::add, ops::sub, ops::mul, ops::div, ops::and and ops::or on the
\* values of the model.
ops_binary(op, a, b) ==
    CASE op \in {"Add", "Sub", "Mul"} /\ a.t = "Int" /\ b.t = "Int" ->
            [ok |-> TRUE,
             v |-> IntV(CASE op = "Add" -> a.int + b.int
                          [] op = "Sub" -> a.int - b.int
                          [] OTHER -> a.int * b.int)]
      [] op = "Add" /\ a.t = "Str" /\ b.t = "Str" ->
            [ok |-> TRUE, v |-> StrV(a.str \o b.str)]
      [] op = "Div" /\ a.t = "Int" /\ b.t = "Int" /\ b.int # 0 ->
            [ok |-> TRUE, v |-> FloatV(a.int, b.int)]
      [] op = "And" /\ a.t = "Bool" /\ b.t = "Bool" ->
            [ok |-> TRUE, v |-> BoolV(a.bool /\ b.bool)]
      [] op = "Or" /\ a.t = "Bool" /\ b.t = "Bool" ->
            [ok |-> TRUE, v |-> BoolV(a.bool \/ b.bool)]
      [] OTHER -> [ok |-> FALSE, v |-> NoneV]

\* Unary::eval.
Unary_eval(m, e, p) ==
    LET apply(value, applied) ==
            IF value.st # "Ok" THEN value
            ELSE IF ~applied.ok THEN Err("cannot apply the operator", p, value.vm)
            ELSE Ok(applied.v, value.vm)
        operand(value) == apply(value, ops_unary(e.op, value.v))
    IN operand(Expr_eval(m, e.expr, p \o <<1>>))

\* Array::locate: the position of index i in an array of length n, 0 if
\* it is out of bounds; a negative index counts from the end.
Locate(n, i) ==
    LET k == IF i >= 0 THEN i + 1 ELSE n + i + 1
    IN IF k >= 1 /\ k <= n THEN k ELSE 0

\* Args::into_index: the pack is exactly one positional integer.
into_index(args) ==
    IF Len(args.items) = 1 /\ args.items[1].name = <<>>
       /\ args.items[1].value.t = "Int"
    THEN [ok |-> TRUE, v |-> args.items[1].value.int]
    ELSE [ok |-> FALSE, v |-> 0]

\* Args::into_key: the pack is exactly one positional string.
into_key(args) ==
    IF Len(args.items) = 1 /\ args.items[1].name = <<>>
       /\ args.items[1].value.t = "Str"
    THEN [ok |-> TRUE, v |-> args.items[1].value.str]
    ELSE [ok |-> FALSE, v |-> <<>>]

\* The value at the end of a path of array positions and dictionary keys
\* below v.
RECURSIVE GetAt(_, _)
GetAt(v, path) ==
    IF Len(path) = 0 THEN v
    ELSE GetAt(IF v.t = "Array" THEN v.items[path[1]] ELSE v.dict[path[1]],
               Tail(path))

\* v with the value at the end of the path replaced by w.
RECURSIVE SetAt(_, _, _)
SetAt(v, path, w) ==
    IF Len(path) = 0 THEN w
    ELSE IF v.t = "Array"
    THEN ArrayV([v.items EXCEPT ![path[1]] = SetAt(@, Tail(path), w)])
    ELSE DictV([v.dict EXCEPT ![path[1]] = SetAt(@, Tail(path), w)])

\* A location is a binding and a path below its value: what a `&mut Value`
\* returned by access points to.
Location(name, path) == [name |-> name, path |-> path]

\* The value a location holds.
LocGet(s, loc) == GetAt(ScopesGet(s, loc.name).v, loc.path)

\* A store through a location.
LocSet(s, loc, w) ==
    ScopesSet(s, loc.name, SetAt(ScopesGet(s, loc.name).v, loc.path, w))

\* Dict::get_mut: it cannot fail, so a key that is absent is entered with
\* the default value.
DictGetMut(s, loc, key) ==
    IF key \in DOMAIN LocGet(s, loc).dict THEN s
    ELSE LocSet(s, loc, DictV((key :> NoneV) @@ LocGet(s, loc).dict))

\* An access that succeeded: the location and the Vm.
Located(loc, m) == [st |-> "Ok", v |-> NoneV, vm |-> m, loc |-> loc]

\* Args::eval: the items xs[k..] in order; acc are the arguments so far.
Args_eval(m, xs, k, p, acc) ==
    LET spread(r) ==
            IF r.st # "Ok" THEN r
            ELSE CASE r.v.t = "None" -> Args_eval(r.vm, xs, k + 1, p, acc)
                   [] r.v.t = "Array" ->
                        Args_eval(r.vm, xs, k + 1, p,
                            acc \o [i \in 1 .. Len(r.v.items) |->
                                        Arg(<<>>, r.v.items[i])])
                   [] r.v.t = "Dict" ->
                        Args_eval(r.vm, xs, k + 1, p, acc \o DictItems(r.v.dict))
                   [] r.v.t = "Args" ->
                        Args_eval(r.vm, xs, k + 1, p, acc \o r.v.items)
                   [] OTHER -> Err("cannot spread", p \o <<k>>, r.vm)
        item(r) ==
            IF r.st # "Ok" THEN r
            ELSE Args_eval(r.vm, xs, k + 1, p,
                     Append(acc, Arg(IF xs[k].kind = "Named"
                                     THEN <<StrV(KeyOf(xs[k].name[1]))>>
                                     ELSE <<>>, r.v)))
    IN IF k > Len(xs) THEN Ok(ArgsV(acc), m)
       ELSE IF xs[k].kind = "Spread"
       THEN spread(Expr_eval(m, xs[k].expr, p \o <<k>>))
       ELSE item(Expr_eval(m, xs[k].expr, p \o <<k>>))

\* FieldAccess::eval; no content of the model carries a field map.
FieldAccess_eval(m, e, p) ==
    LET field(object) ==
            IF object.st # "Ok" THEN object
            ELSE IF object.v.t # "Dict"
            THEN Err("cannot access field", p \o <<1>>, object.vm)
            ELSE IF KeyOf(e.field) \notin DOMAIN object.v.dict
            THEN Err("dictionary does not contain key", p, object.vm)
            ELSE Ok(object.v.dict[KeyOf(e.field)], object.vm)
    IN field(Expr_eval(m, e.target, p \o <<1>>))

\* Func::call on a function of the standard library: the element it
\* makes of its arguments.
func_call(f, args) == ContentV(ShowC(f.func, Empty))

\* FuncCall::eval: the callee, then the arguments, then the index, the
\* key or the call.
FuncCall_eval(m, e, p) ==
    LET at_index(array, index, mm) ==
            IF ~index.ok THEN Err("expected index", p \o <<2>>, mm)
            ELSE IF Locate(Len(array.items), index.v) = 0
            THEN Err("array index out of bounds", p, mm)
            ELSE Ok(array.items[Locate(Len(array.items), index.v)], mm)
        at_key(dict, key, mm) ==
            IF ~key.ok THEN Err("expected key", p \o <<2>>, mm)
            ELSE IF key.v \notin DOMAIN dict.dict
            THEN Err("dictionary does not contain key", p, mm)
            ELSE Ok(dict.dict[key.v], mm)
        apply(callee, args) ==
            IF args.st # "Ok" THEN args
            ELSE CASE callee.v.t = "Array" ->
                        at_index(callee.v, into_index(args.v), args.vm)
                   [] callee.v.t = "Dict" ->
                        at_key(callee.v, into_key(args.v), args.vm)
                   [] callee.v.t = "Func" ->
                        Ok(func_call(callee.v, args.v), args.vm)
                   [] OTHER ->
                        Err("expected callable or collection", p \o <<1>>, args.vm)
        called(callee) ==
            IF callee.st # "Ok" THEN callee
            ELSE apply(callee, Args_eval(callee.vm, e.args, 1, p \o <<2>>, <<>>))
    IN called(Expr_eval(m, e.callee, p \o <<1>>))

\* Access for Expr, Ident, FieldAccess and FuncCall: the location the
\* expression names.  The access of the node at p is logged.
Access(m, e, p) ==
    LET entered == Log(m, "access", p)
        \* Access for Ident: Scopes::get_mut.
        ident ==
            IF FrameOf(m.scopes, e.name) = 0
            THEN Err(IF e.name \in DOMAIN StdScope THEN "cannot mutate a constant"
                     ELSE "unknown variable", p, entered)
            ELSE Located(Location(e.name, <<>>), entered)
        \* Access for FieldAccess.
        field(target, held) ==
            IF held.t # "Dict" THEN Err("expected dictionary", p \o <<1>>, target.vm)
            ELSE Located(Location(target.loc.name,
                                  Append(target.loc.path, KeyOf(e.field))),
                         [target.vm EXCEPT !.scopes =
                             DictGetMut(@, target.loc, KeyOf(e.field))])
        of_field(target) ==
            IF target.st # "Ok" THEN target
            ELSE field(target, LocGet(target.vm.scopes, target.loc))
        \* Access for FuncCall: the arguments, then the callee.
        at_index(callee, held, index) ==
            IF ~index.ok THEN Err("expected index", p \o <<2>>, callee.vm)
            ELSE IF Locate(Len(held.items), index.v) = 0
            THEN Err("array index out of bounds", p, callee.vm)
            ELSE Located(Location(callee.loc.name,
                                  Append(callee.loc.path,
                                         Locate(Len(held.items), index.v))),
                         callee.vm)
        at_key(callee, key) ==
            IF ~key.ok THEN Err("expected key", p \o <<2>>, callee.vm)
            ELSE Located(Location(callee.loc.name, Append(callee.loc.path, key.v)),
                         [callee.vm EXCEPT !.scopes =
                             DictGetMut(@, callee.loc, key.v)])
        element(args, callee, held) ==
            CASE held.t = "Array" -> at_index(callee, held, into_index(args.v))
              [] held.t = "Dict" -> at_key(callee, into_key(args.v))
              [] OTHER -> Err("expected collection", p \o <<1>>, callee.vm)
        of_callee(args, callee) ==
            IF callee.st # "Ok" THEN callee
            ELSE element(args, callee, LocGet(callee.vm.scopes, callee.loc))
        of_call(args) ==
            IF args.st # "Ok" THEN args
            ELSE of_callee(args, Access(args.vm, e.callee, p \o <<1>>))
    IN CASE e.t = "Ident" -> ident
         [] e.t = "FieldAccess" -> of_field(Access(entered, e.target, p \o <<1>>))
         [] e.t = "FuncCall" ->
                of_call(Args_eval(entered, e.args, 1, p \o <<2>>, <<>>))
         [] OTHER -> Err("cannot mutate a temporary value", p, entered)

\* methods::is_mutating.
is_mutating(method) == method \in {"push", "pop", "insert", "remove"}

\* methods::call_mut on the value held by a location: the new value.
call_mut(held, method, args) ==
    IF held.t = "Array" /\ method = "push" /\ Len(args.items) = 1
       /\ args.items[1].name = <<>>
    THEN [ok |-> TRUE, v |-> ArrayV(Append(held.items, args.items[1].value))]
    ELSE IF held.t = "Array" /\ method = "pop" /\ Len(args.items) = 0
            /\ Len(held.items) > 0
    THEN [ok |-> TRUE, v |-> ArrayV(SubSeq(held.items, 1, Len(held.items) - 1))]
    ELSE [ok |-> FALSE, v |-> held]

\* methods::call.
methods_call(value, method, args) ==
    IF method = "len" /\ Len(args.items) = 0 /\ value.t \in {"Array", "Str"}
    THEN [ok |-> TRUE,
          v |-> IntV(IF value.t = "Array" THEN Len(value.items) ELSE Len(value.str))]
    ELSE [ok |-> FALSE, v |-> NoneV]

\* MethodCall::eval: a mutating method takes its arguments and then a
\* location of its target, any other method its target and then its
\* arguments.
MethodCall_eval(m, e, p) ==
    LET mutated(target, w) ==
            IF ~w.ok THEN Err("type has no method", p, target.vm)
            ELSE Ok(NoneV, [target.vm EXCEPT !.scopes = LocSet(@, target.loc, w.v)])
        mutate(args, target) ==
            IF target.st # "Ok" THEN Plain(target)
            ELSE mutated(target,
                         call_mut(LocGet(target.vm.scopes, target.loc), e.method,
                                  args.v))
        mutating(args) ==
            IF args.st # "Ok" THEN args
            ELSE mutate(args, Access(args.vm, e.target, p \o <<1>>))
        applied(args, w) ==
            IF ~w.ok THEN Err("type has no method", p, args.vm)
            ELSE Ok(w.v, args.vm)
        pure(target, args) ==
            IF args.st # "Ok" THEN args
            ELSE applied(args, methods_call(target.v, e.method, args.v))
        of_target(target) ==
            IF target.st # "Ok" THEN target
            ELSE pure(target, Args_eval(target.vm, e.args, 1, p \o <<2>>, <<>>))
    IN IF is_mutating(e.method)
       THEN mutating(Args_eval(m, e.args, 1, p \o <<2>>, <<>>))
       ELSE of_target(Expr_eval(m, e.target, p \o <<1>>))

\* The operators that assign.
AssignOps == {"Assign", "AddAssign", "SubAssign", "MulAssign", "DivAssign"}

\* The `op` that Binary::eval hands to Binary::assign.
assign_op(op, lhs, rhs) ==
    CASE op = "Assign" -> [ok |-> TRUE, v |-> rhs]
      [] op = "AddAssign" -> ops_binary("Add", lhs, rhs)
      [] op = "SubAssign" -> ops_binary("Sub", lhs, rhs)
      [] op = "MulAssign" -> ops_binary("Mul", lhs, rhs)
      [] OTHER -> ops_binary("Div", lhs, rhs)

\* Whatever the left-hand side is, the assignment returns none.
Binary_assign_unchecked(m, e, p) ==
    LET assign(rhs) == IF rhs.st # "Ok" THEN rhs ELSE Ok(NoneV, rhs.vm)
    IN assign(Expr_eval(m, e.rhs, p \o <<2>>))

\* Binary::assign: the right-hand side, then the location of the
\* left-hand side; the value is taken out of the location, which holds the
\* default value until the result is stored.
Binary_assign(m, e, p) ==
    LET store(loc, w) ==
            IF ~w.ok
            THEN Err("cannot apply the operator", p,
                     [loc.vm EXCEPT !.scopes = LocSet(@, loc.loc, NoneV)])
            ELSE Ok(NoneV, [loc.vm EXCEPT !.scopes = LocSet(@, loc.loc, w.v)])
        located(rhs, loc) ==
            IF loc.st # "Ok" THEN Plain(loc)
            ELSE store(loc, assign_op(e.op, LocGet(loc.vm.scopes, loc.loc), rhs.v))
        assign(rhs) ==
            IF rhs.st # "Ok" THEN rhs
            ELSE located(rhs, Access(rhs.vm, e.lhs, p \o <<1>>))
    IN assign(Expr_eval(m, e.rhs, p \o <<2>>))

\* Both operands of `and` and `or` are always evaluated.
ShortCircuit_never(op, lhs) == FALSE

\* The short-circuit test of Binary::apply.
ShortCircuit(op, lhs) ==
    \/ op = "And" /\ lhs = BoolV(FALSE)
    \/ op = "Or" /\ lhs = BoolV(TRUE)

\* Binary::eval: Binary::assign for the assignments, Binary::apply for
\* every other operator.
Binary_eval(m, e, p) ==
    LET apply(rhs, applied) ==
            IF rhs.st # "Ok" THEN rhs
            ELSE IF ~applied.ok THEN Err("cannot apply the operator", p, rhs.vm)
            ELSE Ok(applied.v, rhs.vm)
        right(lhs, rhs) == apply(rhs, ops_binary(e.op, lhs.v, rhs.v))
        left(lhs) ==
            IF lhs.st # "Ok" THEN lhs
            ELSE IF ShortCircuit(e.op, lhs.v) THEN lhs
            ELSE right(lhs, Expr_eval(lhs.vm, e.rhs, p \o <<2>>))
    IN IF e.op \in AssignOps THEN Binary_assign(m, e, p)
       ELSE left(Expr_eval(m, e.lhs, p \o <<1>>))

\* The match of Expr::eval.
Expr_dispatch(m, e, p) ==
    LET found(g) == IF g.ok THEN Ok(g.v, m) ELSE Err("unknown variable", p, m)
    IN CASE e.t = "Lit" -> Ok(e.val, m)
         [] e.t = "Ident" -> found(ScopesGet(m.scopes, e.name))
         [] e.t = "Code" -> CodeBlock_eval(m, e, p)
         [] e.t = "Content" -> ContentBlock_eval(m, e, p)
         [] e.t = "Array" -> eval_items(m, e.exprs, 1, p, <<>>)
         [] e.t = "Let" -> LetBinding_eval(m, e, p)
         [] e.t = "Unary" -> Unary_eval(m, e, p)
         [] e.t = "Binary" -> Binary_eval(m, e, p)
         [] e.t = "Assign" -> Assign_eval(m, e, p)
         [] e.t = "Parenthesized" -> Expr_eval(m, e.expr, p \o <<1>>)
         [] e.t = "FieldAccess" -> FieldAccess_eval(m, e, p)
         [] e.t = "FuncCall" -> FuncCall_eval(m, e, p)
         [] e.t = "MethodCall" -> MethodCall_eval(m, e, p)
         [] e.t = "Set" -> Err("set is only allowed directly in code and content blocks", p, m)
         [] e.t = "Show" -> Err("show is only allowed directly in code and content blocks", p, m)
         [] e.t = "Wrap" -> Err("wrap is only allowed directly in code and content blocks", p, m)
         [] e.t = "While" -> WhileLoop_eval(m, e, p)
         [] e.t = "For" -> ForLoop_eval(m, e, p)
         [] e.t = "Import" -> ModuleImport_eval(m, e, p)
         [] e.t = "Include" -> ModuleInclude_eval(m, e, p)
         [] e.t = "Break" -> Ok(NoneV, RaiseFlow(m, BreakF(p)))
         [] e.t = "Continue" -> Ok(NoneV, RaiseFlow(m, ContinueF(p)))
         [] e.t = "Return" -> ReturnStmt_eval(m, e, p)
         [] OTHER -> Err("not an expression", p, m)

\* The root's error comes first, the pending flow second.
EvalFinish_resultFirst(r) ==
    IF r.st # "Ok" THEN Plain(r)
    ELSE IF r.vm.flow # NoFlow
    THEN [st |-> "Err", v |-> forbidden(r.vm.flow), vm |-> r.vm]
    ELSE Ok(ModuleV(r.vm.scopes.top, r.v), r.vm)

\* The end of eval (lines 76-82): a pending flow is an error whatever the
\* root evaluated to; otherwise the root's error, or the module.
EvalFinish(r) ==
    IF r.vm.flow # NoFlow
    THEN [st |-> "Err", v |-> forbidden(r.vm.flow), vm |-> r.vm]
    ELSE IF r.st # "Ok" THEN Plain(r)
    ELSE Ok(ModuleV(r.vm.scopes.top, r.v), r.vm)

\* eval: the module of source `id`.  `trace` and `stack` are the history
\* of the caller; `at` is the span of the importing statement.
eval(route, id, trace, stack, at) ==
    LET caller == VmNew(route, id, ScopesNew, trace, stack)
        root(r) ==
            IF r.st \in {"Div", "Panic"} THEN Plain(r)
            ELSE EvalFinish([r EXCEPT !.vm = LogRoot(r.vm, <<id>>, r.st)])
    IN IF RouteContains(route, id)
       THEN [st |-> "Panic", v |-> ErrV("Tried to cyclicly evaluate", at), vm |-> caller]
       ELSE IF Len(stack) >= MaxDepth THEN Div(caller)
       ELSE IF ~world[id].ok THEN Err("syntax error", <<id>>, caller)
       ELSE root(eval_markup(VmNew(RouteInsert(route, id), id, ScopesNew, trace,
                                   <<id>> \o stack),
                             world[id].nodes, 1, <<id>>))

----------------------------------------------------------------------------
(* The inputs the calls are applied to.                                    *)

Seqs(S, n) == UNION {[1 .. k -> S] : k \in 0 .. n}

One == Lit(IntV(1))
StrA == Lit(StrV(<<"a">>))
True == Lit(BoolV(TRUE))
False == Lit(BoolV(FALSE))
Undefined == Ident("u")

\* Children of a block that raise, consume, lose or ignore a flow.
FlowExprs ==
    {Ident("x"), BreakStmt, ContinueStmt, ReturnStmt(<<One>>),
     LetBinding("x", <<One>>),
     SetRule("text", <<>>), SetRule("par", <<BreakStmt>>),
     ShowRule(StrA, One),
     WrapRule("w", Ident("w")), WrapRule("w", CodeBlock(<<Undefined>>)),
     CodeBlock(<<BreakStmt>>), ArrayExpr(<<BreakStmt, Undefined>>),
     WhileLoop(True, CodeBlock(<<BreakStmt>>))}

MarkupNodes == {Text(<<"a">>)} \cup FlowExprs
Exprs == {StrA} \cup FlowExprs

\* Children of the body of a loop or block.
BodyExprs ==
    {Ident("i"), BreakStmt, ContinueStmt, ReturnStmt(<<>>),
     Assign("x", False), LetBinding("x", <<One>>),
     WrapRule("i", Ident("x")), ModuleImport(2, <<"*">>)}

\* The loops and blocks around a body.
Around(body) ==
    <<WhileLoop(Ident("x"), CodeBlock(body)),
     ForLoop(<<>>, "i", Lit(ArrayV(<<IntV(1), StrV(<<"a">>)>>)), CodeBlock(body)),
     ForLoop(<<>>, "i", Lit(StrV(<<"a", "b">>)), ContentBlock(body)),
     ForLoop(<<"x">>, "i", Lit(ArrayV(<<StrV(<<"a">>), StrV(<<"b">>)>>)),
             CodeBlock(body)),
     CodeBlock(body), ContentBlock(body)>>

\* The flows pending when a call is entered.
EntryFlows == {NoFlow, BreakF(<<0>>), ReturnF(<<0>>, <<IntV(2)>>)}

\* The scope stacks a call is entered with.
EntryScopes ==
    {ScopesNew,
     [top |-> ("w" :> IntV(0)) @@ EmptyScope,
      scopes |-> <<("x" :> BoolV(TRUE)) @@ EmptyScope>>]}

EntryVms ==
    {[VmNew(<<1>>, 1, sc, <<>>, <<1>>) EXCEPT !.flow = f] :
        sc \in EntryScopes, f \in EntryFlows}

\* A parsed source with the given root children.
Source(nodes) == [ok |-> TRUE, nodes |-> nodes]
\* A source with a syntax error.
Broken == [ok |-> FALSE, nodes |-> <<>>]

\* The world of a call on a block or expression of source 1: source 2 is
\* what its imports load.
Library == <<Source(<<>>), Source(<<LetBinding("x", <<StrA>>)>>)>>

\* The statement that loads source j: even sources are included, odd ones
\* imported.
Load(j) == IF j % 2 = 0 THEN ModuleInclude(j) ELSE ModuleImport(j, <<"*">>)

\* The statements that load the sources of the set T: in increasing
\* order from source `from` on, the root source 1 last.
RECURSIVE Loads(_, _)
Loads(T, from) ==
    IF from > MaxSources THEN (IF 1 \in T THEN <<Load(1)>> ELSE <<>>)
    ELSE (IF from \in T THEN <<Load(from)>> ELSE <<>>) \o Loads(T, from + 1)

\* The import graph in which source i loads the sources g[i].
Graph(g) == [i \in 1 .. MaxSources |-> Source(Loads(g[i], 2))]

NoResult == Ok(NoneV, VmNew(RouteNew, 0, ScopesNew, <<>>, <<>>))

\* Before any call: the library world, nothing evaluated.
Init ==
    /\ pc = "idle"
    /\ call = "none"
    /\ world = Library
    /\ input = [t |-> "Nothing"]
    /\ vm = VmNew(RouteNew, 0, ScopesNew, <<>>, <<>>)
    /\ result = NoResult

\* The call `name` of handler result r on input x and Vm m.
Called(name, x, m, r) ==
    /\ call' = name
    /\ input' = x
    /\ vm' = m
    /\ result' = r
    /\ pc' = "done"
    /\ UNCHANGED world

\* eval_markup applied to a node list.
CallEvalMarkup ==
    /\ pc = "idle"
    /\ \E nodes \in Seqs(MarkupNodes, MaxLen), m \in EntryVms :
          Called("eval_markup", [t |-> "Markup", nodes |-> nodes], m,
                 Plain(eval_markup(m, nodes, 1, <<>>)))

\* eval_code applied to an expression list.
CallEvalCode ==
    /\ pc = "idle"
    /\ \E exprs \in Seqs(Exprs, MaxLen), m \in EntryVms :
          Called("eval_code", [t |-> "Exprs", exprs |-> exprs], m,
                 Plain(eval_code(m, exprs, 1, <<>>)))

\* Expr::eval applied to a loop or block.
CallExprEval ==
    /\ pc = "idle"
    /\ \E body \in Seqs(BodyExprs, MaxLen), m \in EntryVms, k \in 1 .. 6 :
          Called("Expr_eval", Around(body)[k], m,
                 Expr_eval(m, Around(body)[k], <<>>))

\* The world becomes a single source, parsed or broken.
LoadSource ==
    /\ pc = "idle"
    /\ \/ \E nodes \in Seqs(MarkupNodes, MaxLen) : world' = <<Source(nodes)>>
       \/ world' = <<Broken>>
    /\ pc' = "loaded"
    /\ UNCHANGED <<call, input, vm, result>>

\* The world becomes an import graph: every source loads a set of sources.
LoadGraph ==
    /\ pc = "idle"
    /\ \E g \in [1 .. MaxSources -> SUBSET (1 .. MaxSources)] : world' = Graph(g)
    /\ pc' = "loaded"
    /\ UNCHANGED <<call, input, vm, result>>

\* eval applied to the root source of the world.
CallEval ==
    /\ pc = "loaded"
    /\ Called("eval", [t |-> "Source", id |-> 1], vm,
              eval(RouteNew, 1, <<>>, <<>>, <<>>))

Next ==
    \/ CallEvalMarkup \/ CallEvalCode \/ CallExprEval
    \/ LoadSource \/ LoadGraph \/ CallEval

Spec == Init /\ [][Next]_vars

----------------------------------------------------------------------------
(* Flow through blocks.                                                    *)

\* The log of the call that has returned.
Trace == result.vm.trace

\* The call was eval_markup or eval_code.
BlockCall == pc = "done" /\ call \in {"eval_markup", "eval_code"}

\* Event a is the return of a child of the block with a flow pending, and
\* no flow was pending at any earlier event of a child of the block: the
\* flow became pending while that child was evaluated.
RaisedAt(a) ==
    /\ Trace[a].ph = "exit"
    /\ Len(Trace[a].p) = 1
    /\ Trace[a].flow # NoFlow
    /\ \A b \in 1 .. a - 1 : Len(Trace[b].p) = 1 => Trace[b].flow = NoFlow

\* After event a the evaluation of no later sibling is entered.
NoLaterSibling(a) ==
    \A b \in a + 1 .. Len(Trace) :
        ~(/\ Trace[b].ph = "enter"
          /\ Len(Trace[b].p) = 1
          /\ Trace[b].p[1] > Trace[a].p[1])

SavingCall ==
    /\ pc = "done"
    /\ \/ call \in {"eval_markup", "eval_code"}
       \/ call = "Expr_eval" /\ input.t \in {"While", "For"}

\* C4: a flow pending when eval_markup, eval_code, a while loop or a for
\* loop is entered is the flow pending when the call returns a value.
C4_EntryFlowRestored ==
    (SavingCall /\ vm.flow # NoFlow /\ result.st = "Ok") =>
        result.vm.flow = vm.flow

\* A loop entered with a flow pending returned a value after another flow
\* was raised inside it.
C4_Witness ==
    /\ SavingCall /\ call = "Expr_eval" /\ vm.flow # NoFlow /\ result.st = "Ok"
    /\ \E a \in DOMAIN Trace : Trace[a].flow \notin {NoFlow, vm.flow}
    /\ result.vm.flow = vm.flow

----------------------------------------------------------------------------
(* Flow through loops.                                                     *)

\* The call was a while or for loop; its condition or iterable is at
\* <<1>>, its body at <<2>>.
LoopCall == pc = "done" /\ call = "Expr_eval" /\ input.t \in {"While", "For"}

\* Event a is the return of an iteration of the body.
IterationEnd(a) == Trace[a].ph = "exit" /\ Trace[a].p = <<2>>

\* After event a nothing is evaluated but the return of the loop itself.
LoopEndsAt(a) == \A b \in a + 1 .. Len(Trace) : Trace[b].p = <<>>

\* After event a the loop goes on with no flow pending: with its
\* condition, its next iteration, or its return when nothing is left.
LoopGoesOn(a) ==
    /\ a < Len(Trace)
    /\ Trace[a + 1].flow = NoFlow
    /\ Trace[a + 1].p \in {<<>>, <<1>>, <<2>>}

\* C5: in a loop entered with no flow pending, an iteration that leaves
\* Break pending ends the loop with no flow pending, one that leaves
\* Continue pending has the flow cleared and the loop goes on, one that
\* leaves Return pending ends the loop with the Return still pending.
C5_LoopConsumesFlow ==
    (LoopCall /\ vm.flow = NoFlow /\ result.st \in {"Ok", "Err"}) =>
        \A a \in DOMAIN Trace :
            IterationEnd(a) =>
                CASE Trace[a].flow.t = "Break" ->
                        LoopEndsAt(a) /\ result.vm.flow = NoFlow
                  [] Trace[a].flow.t = "Continue" -> LoopGoesOn(a)
                  [] Trace[a].flow.t = "Return" ->
                        LoopEndsAt(a) /\ result.vm.flow = Trace[a].flow
                  [] OTHER -> TRUE

----------------------------------------------------------------------------
(* eval of a source.                                                       *)

\* eval has returned to its caller (it neither diverged nor panicked).
EvalCall == pc = "done" /\ call = "eval" /\ result.st \in {"Ok", "Err"}

\* The root markup of source 1 was evaluated; the last event of the log
\* records the status it returned with, the Vm is the one it left.
RootEvaluated ==
    /\ Len(Trace) > 0
    /\ Trace[Len(Trace)].ph = "root" /\ Trace[Len(Trace)].p = <<1>>

RootStatus == Trace[Len(Trace)].st

\* C6: when a flow is pending after the root markup has been evaluated,
\* eval returns the error "<flow> is not allowed here" of that flow
\* whatever the root evaluated to; when none is pending and the root
\* evaluated to a value, eval returns a Module with the top frame of the
\* Vm as its scope.
C6_ForbiddenFlow ==
    (EvalCall /\ RootEvaluated) =>
        /\ result.vm.flow # NoFlow =>
              result.st = "Err" /\ result.v = forbidden(result.vm.flow)
        /\ (result.vm.flow = NoFlow /\ RootStatus = "Ok") =>
              /\ result.st = "Ok"
              /\ result.v.t = "Module"
              /\ result.v.scope = result.vm.scopes.top

\* The root markup failed with a flow pending, and eval returned the
\* error of the flow.
C6_Witness ==
    /\ EvalCall /\ RootEvaluated
    /\ RootStatus = "Err"
    /\ result.vm.flow.t = "Break"
    /\ result.v.msg = "break is not allowed here"

----------------------------------------------------------------------------
(* Set and show rules in markup.                                           *)

\* The nodes of a markup block of text and of rules that evaluate with no
\* flow pending.
StyleNodes == {Text(<<"a">>), SetRule("text", <<>>), ShowRule(StrA, One)}

\* eval_markup has returned from a block of such nodes.
StyleCall ==
    /\ pc = "done" /\ call = "eval_markup"
    /\ \A i \in DOMAIN input.nodes : input.nodes[i] \in StyleNodes

\* What a rule evaluates to: the style map of a set rule, the recipe of a
\* show rule.
RuleEntry(node) ==
    IF node.t = "Set" THEN SetRule_eval(vm, node, <<>>).v
    ELSE ShowRule_eval(vm, node, <<>>).v

\* The elements of the output of nodes[i..]: the content of every node
\* before the first rule, then one element, the output of the nodes after
\* the rule wrapped with the entry of the rule.
RECURSIVE Forward(_, _)
Forward(nodes, i) ==
    IF i > Len(nodes) THEN <<>>
    ELSE IF nodes[i].t = "Text"
    THEN <<TextC(nodes[i].text)>> \o Forward(nodes, i + 1)
    ELSE <<StyledC(ContentSequence(Forward(nodes, i + 1)), RuleEntry(nodes[i]))>>

\* C7: the output of a markup block is the unstyled content of the nodes
\* before its first set or show rule followed by exactly one element, the
\* content of the nodes after the rule wrapped with the rule's entry; a
\* later rule wraps the nodes after it inside that wrapper.
C7_RulesScopeForward ==
    StyleCall =>
        /\ result.st = "Ok"
        /\ result.v = ContentSequence(Forward(input.nodes, 1))

\* Text, a set rule and a show rule: the output is the text and one
\* styled element, the show rule's wrapper inside the set rule's wrapper.
C7_Witness ==
    /\ StyleCall /\ result.st = "Ok"
    /\ Len(input.nodes) = 3
    /\ input.nodes[1].t = "Text" /\ input.nodes[2].t = "Set"
    /\ input.nodes[3].t = "Show"
    /\ result.v.t = "Sequence" /\ Len(result.v.seq) = 2
    /\ result.v.seq[1] = TextC(<<"a">>)
    /\ result.v.seq[2].t = "Styled"
    /\ result.v.seq[2].entry.t = "StyleMap"
    /\ result.v.seq[2].sub.t = "Styled"
    /\ result.v.seq[2].sub.entry.t = "Recipe"

----------------------------------------------------------------------------
(* Scoping of blocks and for loops.                                        *)

\* A code block, content block or for loop has been evaluated
\* successfully.
ScopedCall ==
    /\ pc = "done" /\ call = "Expr_eval"
    /\ input.t \in {"Code", "Content", "For"}
    /\ result.st = "Ok"

\* The children of the block, or of the body of the loop.
Children(e) ==
    CASE e.t = "Code" -> e.exprs
      [] e.t = "Content" -> e.nodes
      [] e.t = "For" -> IF e.body.t = "Code" THEN e.body.exprs ELSE e.body.nodes

\* The names the construct assigns to.
Assigned(e) ==
    {Children(e)[k].name : k \in {j \in DOMAIN Children(e) : Children(e)[j].t = "Assign"}}

\* The names the construct binds: by let, wrap, import or loop pattern.
Bound(e) ==
    {Children(e)[k].name :
        k \in {j \in DOMAIN Children(e) : Children(e)[j].t \in {"Let", "Wrap"}}}
    \cup (IF \E j \in DOMAIN Children(e) : Children(e)[j].t = "Import"
          THEN {"x"} ELSE {})
    \cup (IF e.t = "For" THEN {e.value} \cup {e.key[k] : k \in DOMAIN e.key}
          ELSE {})

\* C9: after a code block, content block or for loop has been evaluated
\* successfully the scope stack has the frames it had before with the
\* same names in each, the top frame included, and every name resolves
\* to the frame it resolved to before, with the same value unless the
\* construct assigned to it.
C9_BindingsStayInside ==
    ScopedCall =>
        LET before == Frames(vm.scopes)
            after == Frames(result.vm.scopes)
        IN /\ Len(after) = Len(before)
           /\ \A k \in DOMAIN before :
                 /\ DOMAIN after[k] = DOMAIN before[k]
                 /\ \A n \in DOMAIN before[k] \ Assigned(input) :
                       after[k][n] = before[k][n]
           /\ \A n \in Bound(input) :
                 /\ FrameOf(result.vm.scopes, n) = FrameOf(vm.scopes, n)
                 /\ n \notin Assigned(input) =>
                       ScopesGet(result.vm.scopes, n) = ScopesGet(vm.scopes, n)

\* A block that binds x to 1 by let was evaluated where x was bound to
\* true, and x is true afterwards.
C9_Witness ==
    /\ ScopedCall
    /\ input.t = "Code"
    /\ "x" \in Bound(input) /\ "x" \notin Assigned(input)
    /\ \E a \in DOMAIN Trace : Trace[a].ph = "exit" /\ Trace[a].p = <<1>>
    /\ input.exprs[1] = LetBinding("x", <<One>>)
    /\ ScopesGet(vm.scopes, "x").v = BoolV(TRUE)
    /\ ScopesGet(result.vm.scopes, "x").v = BoolV(TRUE)

----------------------------------------------------------------------------
(* Imports.                                                                *)

\* eval of the root of an import graph has ended.
GraphCall == pc = "done" /\ call = "eval" /\ Len(world) = MaxSources

\* The import and include statements that were executed.
Imports == {a \in DOMAIN Trace : Trace[a].ph = "import"}

\* The target of statement a is the source the statement is in or one of
\* the sources whose imports led to it.
OnRoute(a) == \E k \in DOMAIN Trace[a].stack : Trace[a].stack[k] = Trace[a].target

\* C8: evaluating the root of an import graph with an empty route, an
\* import or include fails as cyclic exactly when its target is the
\* source itself or one of its importing ancestors, a source reached
\* again on another branch is evaluated again, and after a cyclic import
\* eval of the root returns that error at the statement's span.
C8_CyclicImport ==
    GraphCall =>
        /\ result.st \in {"Ok", "Err"}
        /\ \A a \in Imports : Trace[a].outcome = "cyclic" <=> OnRoute(a)
        /\ \A a \in Imports :
              Trace[a].outcome = "cyclic" =>
                  result.st = "Err" /\ result.v = ErrV("cyclic import", Trace[a].p)

\* Source 2 was loaded by source 1 and again by source 3, and source 3
\* then failed to load its ancestor 1: the root returned the error.
C8_Witness ==
    /\ GraphCall
    /\ result.st = "Err" /\ result.v.msg = "cyclic import"
    /\ \E a, b, c \in Imports :
          /\ a < b /\ b < c
          /\ Trace[a].target = 2 /\ Trace[a].stack = <<1>>
          /\ Trace[a].outcome = "eval"
          /\ Trace[b].target = 2 /\ Trace[b].stack = <<3, 1>>
          /\ Trace[b].outcome = "eval"
          /\ Trace[c].target = 1 /\ Trace[c].stack = <<3, 1>>
          /\ Trace[c].outcome = "cyclic"

----------------------------------------------------------------------------
(* Operators, assignments, calls and loops over argument packs: the calls  *)
(* of Expr::eval on one such expression.                                   *)

\* Path q is p or below it.
Under(q, p) == Len(q) >= Len(p) /\ SubSeq(q, 1, Len(p)) = p

\* The events of the log at or below the node at p.
EventsUnder(tr, p) == {a \in DOMAIN tr : Under(tr[a].p, p)}

\* The number of times the evaluation of the node at p was entered.
Entered(tr, p) == Cardinality({a \in DOMAIN tr : tr[a].ph = "enter" /\ tr[a].p = p})

\* Left operands: values, a lookup, an error, a block that raises a flow.
LeftOperands ==
    {True, False, One, Ident("x"), Undefined, CodeBlock(<<True, BreakStmt>>),
     CodeBlock(<<LetBinding("y", <<One>>), False>>)}

\* Right operands: a value, and expressions that define a binding, write
\* one, raise a flow or fail.
RightOperands ==
    {True, LetBinding("y", <<One>>), Assign("x", False), BreakStmt, Undefined,
     CodeBlock(<<ReturnStmt(<<>>), True>>)}

\* Expr::eval applied to a binary operation that is not an assignment.
CallBinaryApply ==
    /\ pc = "idle"
    /\ \E op \in {"And", "Or", "Add"}, l \in LeftOperands, r \in RightOperands,
          m \in EntryVms :
          Called("Binary_apply", Binary(op, l, r), m,
                 Expr_eval(m, Binary(op, l, r), <<>>))

\* The scopes of a call on an assignment or a call: an array, a
\* dictionary with a dictionary in it, an array with an array in it and an
\* integer, and a boolean one frame further out.
OpsScopes ==
    [top |-> ("a" :> ArrayV(<<IntV(1), IntV(2)>>))
             @@ ("d" :> DictV((<<"k">>) :> DictV((<<"j">>) :> IntV(1))))
             @@ ("b" :> ArrayV(<<ArrayV(<<IntV(1)>>)>>))
             @@ ("n" :> IntV(3)),
     scopes |-> <<("x" :> BoolV(TRUE)) @@ EmptyScope>>]

OpsVms == {[VmNew(<<1>>, 1, OpsScopes, <<>>, <<1>>) EXCEPT !.flow = f] :
              f \in {NoFlow, BreakF(<<0>>)}}

Index(i) == <<ArgPos(Lit(IntV(i)))>>
Key(k) == <<ArgPos(Lit(StrV(<<k>>)))>>

\* Left-hand sides that name a location.
Paths ==
    {Ident("n"), Ident("x"), FieldAccess(Ident("d"), "k"),
     FieldAccess(Ident("d"), "z"), FieldAccess(FieldAccess(Ident("d"), "k"), "j"),
     FuncCall(Ident("a"), Index(0)), FuncCall(Ident("a"), Index(0 - 1)),
     FuncCall(Ident("d"), Key("k")),
     FuncCall(FieldAccess(Ident("d"), "k"), Key("j"))}

\* Left-hand sides of the three kinds that name no location: a constant
\* of the library, an unbound name, a target that is no dictionary, a
\* callee that is no collection, a temporary below the path, an index out
\* of bounds.
NoPaths ==
    {Ident("text"), Undefined, FieldAccess(Ident("a"), "k"),
     FieldAccess(Ident("n"), "k"), FieldAccess(Lit(DictV(<<>>)), "k"),
     FieldAccess(FieldAccess(FieldAccess(Ident("d"), "k"), "j"), "z"),
     FuncCall(Ident("n"), Index(0)), FuncCall(Ident("text"), Index(0)),
     FuncCall(Lit(ArrayV(<<IntV(1)>>)), Index(0)),
     FuncCall(Ident("a"), Index(2)), FuncCall(Ident("a"), Key("k"))}

\* Left-hand sides of every other kind.
Temporaries ==
    {One, Parenthesized(Ident("n")), CodeBlock(<<Ident("n")>>),
     ContentBlock(<<Text(<<"a">>)>>), Binary("Add", Ident("n"), One),
     Unary("Neg", Ident("n")), ArrayExpr(<<Ident("n")>>),
     MethodCall(Ident("a"), "len", <<>>)}

\* Right-hand sides: values, and expressions that write a binding, define
\* one, raise a flow or fail.
RightSides ==
    {One, StrA, Ident("n"), Binary("Assign", Ident("n"), One),
     LetBinding("y", <<One>>), CodeBlock(<<BreakStmt, One>>), Undefined}

\* Expr::eval applied to an assignment.
CallBinaryAssign ==
    /\ pc = "idle"
    /\ \E op \in AssignOps, l \in Paths \cup NoPaths \cup Temporaries,
          r \in RightSides, m \in OpsVms :
          Called("Binary_assign", Binary(op, l, r), m,
                 Expr_eval(m, Binary(op, l, r), <<>>))

\* `{n = 0; 0}`: 0, with n set to 0 on the way.
SetN == CodeBlock(<<Binary("Assign", Ident("n"), Lit(IntV(0))), Lit(IntV(0))>>)

\* `{n = 1; text}`: the function text, with n set to 1 on the way.
SetNText == CodeBlock(<<Binary("Assign", Ident("n"), One), Ident("text")>>)

\* Sub-expressions: a value, a read of n, writes of n, a flow, an error.
Subs ==
    {Lit(IntV(0)), Ident("n"), SetN, Binary("AddAssign", Ident("n"), One),
     CodeBlock(<<BreakStmt, One>>), Undefined}

\* Expr::eval applied to an assignment to an element: `a(i) = v`.
CallIndexAssign ==
    /\ pc = "idle"
    /\ \E op \in {"Assign", "AddAssign"}, i \in Subs, v \in Subs, m \in OpsVms :
          Called("Index_assign", Binary(op, FuncCall(Ident("a"), <<ArgPos(i)>>), v),
                 m,
                 Expr_eval(m, Binary(op, FuncCall(Ident("a"), <<ArgPos(i)>>), v),
                           <<>>))

\* The argument lists of the calls.
ArgLists(x, y) ==
    {<<ArgPos(x)>>, <<ArgPos(x), ArgNamed("k", y)>>, <<ArgSpread(x), ArgPos(y)>>}

\* Expr::eval applied to a call of a function, an array or a dictionary.
CallFuncCall ==
    /\ pc = "idle"
    /\ \E c \in {Ident("text"), SetNText, Ident("a"), Ident("d"), Ident("n")},
          x \in Subs \cup {Ident("a"), Ident("d"), StrA}, y \in {Ident("n"), SetN},
          m \in OpsVms :
          \E args \in ArgLists(x, y) :
              Called("FuncCall_eval", FuncCall(c, args), m,
                     Expr_eval(m, FuncCall(c, args), <<>>))

\* Expr::eval applied to a method call.
CallMethodCall ==
    /\ pc = "idle"
    /\ \E t \in {Ident("a"), Ident("n"), SetN, ArrayExpr(<<SetN>>)}
                  \cup {FuncCall(Ident("b"), <<ArgPos(i)>>) : i \in Subs},
          method \in {"push", "pop", "len"},
          args \in {<<>>} \cup {<<ArgPos(x)>> : x \in Subs},
          m \in OpsVms :
          Called("MethodCall_eval", MethodCall(t, method, args), m,
                 Expr_eval(m, MethodCall(t, method, args), <<>>))

\* The arguments of the packs: positional and named ones.
PackArgs ==
    {Arg(<<>>, IntV(1)), Arg(<<>>, StrV(<<"a">>)),
     Arg(<<StrV(<<"k">>)>>, IntV(2)), Arg(<<StrV(<<"j">>)>>, NoneV)}

\* The loop over `iter` whose body yields what the pattern binds, as an
\* array, so that the loop yields the bindings of its iterations in order.
Collect(key, iter) ==
    ForLoop(key, "i", Lit(iter),
            CodeBlock(<<ArrayExpr(IF Len(key) = 1
                                  THEN <<Ident(key[1]), Ident("i")>>
                                  ELSE <<Ident("i")>>)>>))

\* Expr::eval applied to a for loop over an args pack or a dictionary.
CallForLoopArgs ==
    /\ pc = "idle"
    /\ \E items \in Seqs(PackArgs, MaxLen), key \in {<<>>, <<"x">>},
          m \in EntryVms :
          \/ Called("ForLoop_args", Collect(key, ArgsV(items)), m,
                    Expr_eval(m, Collect(key, ArgsV(items)), <<>>))
          \/ /\ Len(items) = 2
             /\ Called("ForLoop_dict",
                       Collect(key, DictV((<<"k">>) :> items[1].value
                                          @@ (<<"j">>) :> items[2].value)),
                       m,
                       Expr_eval(m, Collect(key,
                                     DictV((<<"k">>) :> items[1].value
                                           @@ (<<"j">>) :> items[2].value)),
                                 <<>>))

OpsNext ==
    \/ CallBinaryApply
    \/ CallBinaryAssign
    \/ CallIndexAssign
    \/ CallFuncCall
    \/ CallMethodCall
    \/ CallForLoopArgs

OpsSpec == Init /\ [][OpsNext]_vars

\* The call was Expr::eval on a binary operation.
BinaryCall == pc = "done" /\ call = "Binary_apply"

\* What the left operand of the operation evaluates to on the entry Vm.
LeftResult == Expr_eval(Log(vm, "enter", <<>>), input.lhs, <<1>>)

\* The right operand was evaluated exactly once, after every step of the
\* left operand.
RightOnceAfterLeft ==
    /\ Entered(Trace, <<2>>) = 1
    /\ \A a \in EventsUnder(Trace, <<1>>), b \in EventsUnder(Trace, <<2>>) : a < b

\* The operation is an `and` whose left operand evaluates to false or an
\* `or` whose left operand evaluates to true.
LeftDecides ==
    \/ input.op = "And" /\ LeftResult.v.t = "Bool" /\ ~LeftResult.v.bool
    \/ input.op = "Or" /\ LeftResult.v.t = "Bool" /\ LeftResult.v.bool

\* C11: `and` with a false left operand and `or` with a true one return
\* the left value and the Vm the left operand left behind, so that no step
\* of the right operand is taken; when the left operand evaluates to any
\* other value the right operand is evaluated exactly once, after the left
\* operand.
C11_ShortCircuit ==
    (BinaryCall /\ LeftResult.st = "Ok") =>
        IF LeftDecides
        THEN /\ result.st = "Ok"
             /\ result.v = LeftResult.v
             /\ result.vm = Log(LeftResult.vm, "exit", <<>>)
             /\ EventsUnder(Trace, <<2>>) = {}
        ELSE RightOnceAfterLeft

\* `true or u`, with u undefined and a left operand that raises a break,
\* has returned true with the break pending.
C11_Witness ==
    /\ BinaryCall
    /\ input = Binary("Or", CodeBlock(<<True, BreakStmt>>), Undefined)
    /\ vm.flow = NoFlow
    /\ result.st = "Ok"
    /\ result.v = BoolV(TRUE)
    /\ result.vm.flow.t = "Break"

\* The call was Expr::eval on an assignment.
AssignCall == pc = "done" /\ call = "Binary_assign"

\* What the right-hand side of the assignment evaluates to on the entry
\* Vm: it is evaluated first.
RightResult == Expr_eval(Log(vm, "enter", <<>>), input.rhs, <<2>>)

\* The expression names a location of Vm m and holds a value of one of
\* the types there.
Holds(m, e, p, types) ==
    LET held(loc) == loc.st = "Ok" /\ LocGet(loc.vm.scopes, loc.loc).t \in types
    IN held(Access(m, e, p))

\* The left-hand side e is an identifier bound outside the library, a
\* field access whose target is an accessible dictionary, or a call
\* whose callee is an accessible array or dictionary.
AccessPath(m, e) ==
    \/ e.t = "Ident" /\ FrameOf(m.scopes, e.name) > 0
    \/ e.t = "FieldAccess" /\ Holds(m, e.target, <<1, 1>>, {"Dict"})
    \/ e.t = "FuncCall" /\ Holds(m, e.callee, <<1, 1>>, {"Array", "Dict"})

OrderedCall ==
    /\ pc = "done"
    /\ call \in {"Binary_assign", "Index_assign", "FuncCall_eval", "MethodCall_eval"}

\* The node at p is textually before the node at q: neither is inside
\* the other, and where their paths part p takes the earlier child.
Before(p, q) ==
    \E k \in 1 .. Len(p) :
        /\ k <= Len(q)
        /\ SubSeq(p, 1, k - 1) = SubSeq(q, 1, k - 1)
        /\ p[k] < q[k]

\* Events a and b of the log are evaluations of sub-expressions, the
\* first of a textually earlier one.
EarlierLater(a, b) ==
    /\ Trace[a].ph = "enter"
    /\ Trace[b].ph = "enter"
    /\ Before(Trace[a].p, Trace[b].p)

\* C13 as stated: in an assignment, a call and a method call every
\* sub-expression that is textually earlier is evaluated before every
\* sub-expression that is textually later.
C13_SourceOrder ==
    OrderedCall =>
        \A a \in DOMAIN Trace, b \in DOMAIN Trace : EarlierLater(a, b) => a < b

\* The call was Expr::eval on a for loop over an args pack.
ArgsLoop == pc = "done" /\ call = "ForLoop_args"

\* The pack the loop went over and whether its pattern has a key.
Pack == input.iter.val.items
KeyPattern == Len(input.key) = 1

\* What the iterations over the arguments of the kinds `taken` bind, in
\* order: the value, after the key if the pattern has one.
RECURSIVE Bindings(_, _, _)
Bindings(items, withKey, taken) ==
    IF Len(items) = 0 THEN <<>>
    ELSE (IF (items[1].name = <<>>) \notin taken THEN <<>>
          ELSE IF ~withKey THEN <<items[1].value>>
          ELSE <<IF items[1].name = <<>> THEN NoneV ELSE items[1].name[1],
                 items[1].value>>)
         \o Bindings(Tail(items), withKey, taken)

\* Whether an argument is positional, as the kinds of arguments.
Positional == {TRUE}
Named == {FALSE}

\* The loop returned the bindings `bound`; a loop without an iteration
\* returns none.
Yields(bound) ==
    /\ result.st = "Ok"
    /\ result.v = IF Len(bound) = 0 THEN NoneV ELSE ArrayV(bound)

\* C20 as stated: with the pattern `value` the body runs once for each
\* positional argument in order; with the pattern `key, value` it runs
\* once for each named argument, and positional arguments are skipped.
C20_AsStated ==
    ArgsLoop =>
        IF KeyPattern THEN Yields(Bindings(Pack, TRUE, Named))
        ELSE Yields(Bindings(Pack, FALSE, Positional))

\* C20: with the pattern `value` the body runs once for each positional
\* argument in order and named arguments are skipped; with the pattern
\* `key, value` it runs once for every argument in order, the key bound to
\* the name of a named argument and to none for a positional one.
C20_KeyPatternTakesAll ==
    ArgsLoop =>
        IF KeyPattern THEN Yields(Bindings(Pack, TRUE, Positional \cup Named))
        ELSE Yields(Bindings(Pack, FALSE, Positional))

\* `for x, i in args { (x, i) }` over the pack (1, k: 2) has bound the
\* key to none for the positional argument 1.
C20_Witness ==
    /\ ArgsLoop
    /\ KeyPattern
    /\ Pack = <<Arg(<<>>, IntV(1)), Arg(<<StrV(<<"k">>)>>, IntV(2))>>
    /\ result.st = "Ok"
    /\ result.v = ArrayV(<<NoneV, IntV(1), StrV(<<"k">>), IntV(2)>>)

----------------------------------------------------------------------------
(* Source text and tokens (parse/tokens.rs).  A text is a sequence of      *)
(* one-character strings; an offset o counts the characters before a       *)
(* position, so the character at offset o is src[o + 1].                   *)

Letters == {"x", "l", "e", "t", "a", "n", "d", "o", "r", "i"}
Digits == {"2", "3"}
Whitespace == {" ", "\n"}
\* The characters at which a run of markup text ends.
StopChars == Whitespace \cup {"#", "*", "_", "/", "[", "]", "{", "}", "-", ":"}
Chars == Letters \cup Digits \cup StopChars
         \cup {"=", "+", ";", "(", ")", ",", ".", ">"}
IdStart == Letters \cup {"_"}
IdContinue == Letters \cup Digits \cup {"_", "-"}

\* A token: its NodeKind (kind with the payload text or n) and byte length.
Tok(kind, text, n, len) == [kind |-> kind, text |-> text, n |-> n, len |-> len]
NoToken == Tok("None", <<>>, 0, 0)

RECURSIVE RunLen(_, _, _)
\* The length of the longest run of characters of S that starts at src[i].
RunLen(src, i, S) ==
    IF i <= Len(src) /\ src[i] \in S THEN 1 + RunLen(src, i + 1, S) ELSE 0

RECURSIVE IntOf(_)
\* The value of a run of digits.
IntOf(s) ==
    IF s = <<>> THEN 0
    ELSE 10 * IntOf(SubSeq(s, 1, Len(s) - 1))
         + (IF s[Len(s)] = "2" THEN 2 ELSE 3)

\* Whitespace is one Space token that counts its newlines.
SpaceToken(src, o) ==
    LET len == RunLen(src, o + 1, Whitespace)
    IN Tok("Space", <<>>,
           Cardinality({i \in o + 1 .. o + len : src[i] = "\n"}), len)

\* A run of text.
TextToken(src, o) ==
    LET len == 1 + RunLen(src, o + 2, Chars \ StopChars)
    IN Tok("Text", SubSeq(src, o + 1, o + len), 0, len)

\* The keywords of the texts of the model.
Keywords ==
    (<<"l", "e", "t">>) :> "Let" @@ (<<"a", "n", "d">>) :> "And"
    @@ (<<"o", "r">>) :> "Or" @@ (<<"n", "o", "t">>) :> "Not"
    @@ (<<"i", "n">>) :> "In"

\* The token of a name: a keyword or an identifier.
NameToken(name, len) ==
    IF name \in DOMAIN Keywords THEN Tok(Keywords[name], <<>>, 0, len)
    ELSE Tok("Ident", name, 0, len)

\* An identifier of the given length with a hash of length `pre` in front
\* of it.
IdentRun(src, o, pre, len) ==
    NameToken(SubSeq(src, o + pre + 1, o + pre + len), pre + len)

\* An identifier, resolved against the keyword table; `pre` is the length
\* of the hash in front of it.
IdentToken(src, o, pre) ==
    IdentRun(src, o, pre, RunLen(src, o + pre + 1, IdContinue))

\* The kinds of the one-character tokens of the two modes.
MarkupPunct ==
    [c \in {"=", "+", "-", "/", ":", "*", "_", "{", "}", "[", "]"} |->
        CASE c = "=" -> "Eq" [] c = "+" -> "Plus" [] c = "-" -> "Minus"
          [] c = "/" -> "Slash" [] c = ":" -> "Colon" [] c = "*" -> "Star"
          [] c = "_" -> "Underscore" [] c = "{" -> "LeftBrace"
          [] c = "}" -> "RightBrace" [] c = "[" -> "LeftBracket"
          [] c = "]" -> "RightBracket"]
CodePunct ==
    [c \in {"=", "+", "-", "/", ":", "*", ";", "{", "}", "[", "]", "(", ")", ",",
            "."} |->
        CASE c = "=" -> "Eq" [] c = "+" -> "Plus" [] c = "-" -> "Minus"
          [] c = "/" -> "Slash" [] c = ":" -> "Colon" [] c = "*" -> "Star"
          [] c = ";" -> "Semicolon" [] c = "{" -> "LeftBrace"
          [] c = "}" -> "RightBrace" [] c = "[" -> "LeftBracket"
          [] c = "]" -> "RightBracket" [] c = "(" -> "LeftParen"
          [] c = ")" -> "RightParen" [] c = "," -> "Comma" [] c = "." -> "Dot"]

\* The two-character tokens of code.
CodePairs ==
    (<<"=", "=">>) :> "EqEq" @@ (<<"=", ">">>) :> "Arrow"
    @@ (<<"+", "=">>) :> "PlusEq" @@ (<<".", ".">>) :> "Dots"

\* Is the character at offset o inside a word?
InWord(src, o) ==
    /\ o >= 1 /\ src[o] \in Letters \cup Digits
    /\ o + 2 <= Len(src) /\ src[o + 2] \in Letters \cup Digits

\* The next markup token at offset o < Len(src).
MarkupToken(src, o) ==
    LET c == src[o + 1]
    IN CASE c \in Whitespace -> SpaceToken(src, o)
         [] c = "#" /\ o + 2 <= Len(src) /\ src[o + 2] \in IdStart ->
                IdentToken(src, o, 1)
         [] c \in {"*", "_"} /\ ~InWord(src, o) -> Tok(MarkupPunct[c], <<>>, 0, 1)
         [] c \in DOMAIN MarkupPunct \ {"*", "_"} -> Tok(MarkupPunct[c], <<>>, 0, 1)
         [] OTHER -> TextToken(src, o)

\* A number; letters that follow its digits make it an error.
NumberToken(num) ==
    IF \A i \in DOMAIN num : num[i] \in Digits
    THEN Tok("Int", <<>>, IntOf(num), Len(num))
    ELSE Tok("Error", <<"invalid number suffix">>, 0, Len(num))

\* The next code token at offset o < Len(src).
CodeToken(src, o) ==
    LET c == src[o + 1]
        pair == IF o + 2 <= Len(src) THEN <<c, src[o + 2]>> ELSE <<c>>
    IN CASE c \in Whitespace -> SpaceToken(src, o)
         [] pair \in DOMAIN CodePairs -> Tok(CodePairs[pair], <<>>, 0, 2)
         [] c \in IdStart -> IdentToken(src, o, 0)
         [] c \in Digits ->
                NumberToken(SubSeq(src, o + 1,
                                   o + RunLen(src, o + 1, Letters \cup Digits)))
         [] c \in DOMAIN CodePunct -> Tok(CodePunct[c], <<>>, 0, 1)
         [] OTHER -> Tok("Error", <<"not valid here">>, 0, 1)

\* The one-character tokens of math; every other character is an atom.
MathPunct ==
    "_" :> "Underscore" @@ "^" :> "Hat" @@ "/" :> "Slash" @@ "&" :> "Amp"
    @@ "$" :> "Dollar" @@ "(" :> "LeftParen" @@ ")" :> "RightParen"

\* The next math token at offset o < Len(src).
MathToken(src, o) ==
    IF src[o + 1] \in Whitespace THEN SpaceToken(src, o)
    ELSE IF src[o + 1] \in DOMAIN MathPunct
    THEN Tok(MathPunct[src[o + 1]], <<>>, 0, 1)
    ELSE Tok("Atom", <<src[o + 1]>>, 0, 1)

\* Is the code token at offset o a single dot?
DotAt(src, o) ==
    /\ o < Len(src) /\ src[o + 1] = "."
    /\ ~(o + 2 <= Len(src) /\ src[o + 2] = ".")

----------------------------------------------------------------------------
(* Syntax nodes (syntax/mod.rs): a leaf carries the byte length of its     *)
(* token, an inner node the lengths of its children.                       *)

RECURSIVE SumLen(_)
SumLen(children) ==
    IF children = <<>> THEN 0
    ELSE children[1].len + SumLen(Tail(children))

\* NodeData::new.
Leaf(tok) ==
    [kind |-> tok.kind, text |-> tok.text, n |-> tok.n, len |-> tok.len,
     children |-> <<>>]
\* InnerNode::with_children; n is the min_indent of a Markup node.
Inner(kind, n, children) ==
    [kind |-> kind, text |-> <<>>, n |-> n, len |-> SumLen(children),
     children |-> children]
\* An Error node around the given children.
ErrorNode(msg, children) ==
    [kind |-> "Error", text |-> <<msg>>, n |-> 0, len |-> SumLen(children),
     children |-> children]

----------------------------------------------------------------------------
(* The Parser (parse/parser.rs): the token at hand, the buffer of open     *)
(* children, the group stack.  `saved` holds the buffers set aside by the  *)
(* performs that are running; `res` is the ParseResult and `flag` the      *)
(* at_start of the grammar function that returned last, `ret` the kind     *)
(* that item or collection returned last.  `stalled` is a history          *)
(* variable: a loop of the grammar has gone round without the token at     *)
(* hand moving on.                                                         *)

\* The token at offset o in the mode of the parser.
TokenAt(p, o) ==
    IF o >= Len(p.src) THEN NoToken
    ELSE IF p.mode = "Markup" THEN MarkupToken(p.src, o)
    ELSE IF p.mode = "Math" THEN MathToken(p.src, o)
    ELSE CodeToken(p.src, o)

\* The parser with the token `tok` of offset o at hand.
Fetched(p, o, tok) ==
    [p EXCEPT !.cur = tok, !.cur_start = o, !.cursor = o + tok.len]

\* tokens.jump(o) and tokens.next().
Fetch(p, o) == Fetched(p, o, TokenAt(p, o))

\* Parser::new.
Parser_new(src, mode) ==
    LET new(p) == [p EXCEPT !.eof = (p.cur.kind = "None")]
    IN new(Fetch([src |-> src, mode |-> mode, cur |-> NoToken,
                  cur_start |-> 0, cursor |-> 0, prev_end |-> 0,
                  eof |-> FALSE, groups |-> <<>>, children |-> <<>>,
                  saved |-> <<>>, unterminated_group |-> FALSE,
                  stray_terminator |-> FALSE, res |-> TRUE,
                  flag |-> FALSE, ret |-> "None", stalled |-> FALSE], 0))

\* Strong and emphasis end at the first marker: they are weak groups.
Weak == {"Strong", "Emph"}

\* Parser::inside: a weak group only counts below other weak groups.
inside(p, kind) ==
    LET G == p.groups
    IN \E i \in DOMAIN G :
          /\ G[i].kind = kind
          /\ kind \in Weak => \A j \in i .. Len(G) : G[j].kind \in Weak

\* Parser::space_ends_group.  In a code block a newline does not end an
\* expression that goes on with a dot; no text of the model holds `else`.
space_ends_group(p, n) ==
    /\ n >= 1
    /\ p.groups # <<>>
    /\ LET G == p.groups
           kind == G[Len(G)].kind
       IN CASE kind \in Weak -> n >= 2
            [] kind = "Imports" -> TRUE
            [] kind = "Expr" ->
                   \/ ~(Len(G) >= 2 /\ G[Len(G) - 1].kind = "Brace")
                   \/ ~DotAt(p.src, p.cursor)
            [] OTHER -> FALSE

\* Parser::is_trivia.
is_trivia(p, node) == node.kind = "Space" /\ ~space_ends_group(p, node.n)

\* Parser::repeek: is the token at hand the end of the innermost group?
repeek(p) ==
    LET k == p.cur.kind
    IN [p EXCEPT !.eof =
          CASE k = "None" -> TRUE
            [] k = "RightBrace" -> inside(p, "Brace")
            [] k = "RightBracket" -> inside(p, "Bracket")
            [] k = "RightParen" -> inside(p, "Paren")
            [] k = "Star" -> inside(p, "Strong")
            [] k = "Underscore" -> inside(p, "Emph")
            [] k = "Dollar" -> inside(p, "Math")
            [] k = "Semicolon" -> inside(p, "Expr")
            [] k = "Space" -> space_ends_group(p, p.cur.n)
            [] OTHER -> FALSE]

\* Parser::bump: the token at hand becomes a child.
bump(p) == Fetch([p EXCEPT !.children = Append(@, Leaf(p.cur))], p.cursor)

RECURSIVE bump_trivia(_, _)
\* The bumps of Parser::eat: the token at hand and, outside markup, the
\* trivia that follow it.
bump_trivia(p, first) ==
    IF first \/ (p.mode # "Markup" /\ p.cur.kind # "None" /\ is_trivia(p, p.cur))
    THEN bump_trivia(bump(p), FALSE)
    ELSE p

\* Is the token at hand a closing delimiter that no group waits for?
stray(p) ==
    \/ p.cur.kind = "RightBrace" /\ ~inside(p, "Brace")
    \/ p.cur.kind = "RightBracket" /\ ~inside(p, "Bracket")
    \/ p.cur.kind = "RightParen" /\ ~inside(p, "Paren")

\* Parser::eat.
eat(p) ==
    repeek(bump_trivia([p EXCEPT !.stray_terminator = @ \/ stray(p),
                                 !.prev_end = p.cursor], TRUE))

\* Parser::at.
at_kind(p, kind) == ~p.eof /\ p.cur.kind = kind

\* Parser::peek_direct: the kind of the next token if it follows at once.
peek_direct(p) ==
    IF p.prev_end = p.cur_start /\ ~p.eof THEN p.cur.kind ELSE "None"

RECURSIVE eat_all(_, _)
\* `while p.eat_if(kind) {}`.
eat_all(p, kind) == IF at_kind(p, kind) THEN eat_all(eat(p), kind) ELSE p

RECURSIVE eat_spaces(_, _)
\* p.eat_while over spaces: all of them, or those without a newline.
eat_spaces(p, newlines) ==
    IF at_kind(p, "Space") /\ (newlines \/ p.cur.n = 0)
    THEN eat_spaces(eat(p), newlines)
    ELSE p

\* Parser::column: the characters between the last newline and offset o.
column(p, o) ==
    LET nl == {i \in 1 .. o : p.src[i] = "\n"}
    IN IF nl = {} THEN o ELSE o - CHOOSE i \in nl : \A j \in nl : j <= i

RECURSIVE trivia_start(_)
\* Parser::trivia_start: the index in the buffer where the trailing trivia
\* start.
trivia_start(p) ==
    LET n == Len(p.children)
    IN IF n > 0 /\ is_trivia(p, p.children[n])
       THEN trivia_start([p EXCEPT !.children = SubSeq(@, 1, n - 1)])
       ELSE n

\* The node `head` with the given children.
Wrap(head, children) ==
    [head EXCEPT !.children = children, !.len = SumLen(children)]

\* Marker::end: the children after the marker, without trailing trivia,
\* become one node.
marker_end(p, marker, kind, n) ==
    LET c == p.children
        until == IF trivia_start(p) > marker THEN trivia_start(p) ELSE marker
    IN [p EXCEPT !.children =
          SubSeq(c, 1, marker)
          \o <<Inner(kind, n, SubSeq(c, marker + 1, until))>>
          \o SubSeq(c, until + 1, Len(c))]

\* Marker::convert: the child at the marker gets another kind.
marker_convert(p, marker, kind, text) ==
    IF marker + 1 > Len(p.children) THEN p
    ELSE [p EXCEPT !.children[marker + 1].kind = kind,
                   !.children[marker + 1].text = text,
                   !.children[marker + 1].n = 0]

\* Parser::perform, before and after the closure: the buffer is set aside
\* and the children of the closure become one node in it; in code the
\* trailing trivia stay outside the node.
perform_begin(p) ==
    [p EXCEPT !.saved = Append(@, p.children), !.children = <<>>]

perform_end(p, head) ==
    LET c == p.children
        until == IF p.mode = "Markup" THEN Len(c) ELSE trivia_start(p)
        prev == p.saved[Len(p.saved)]
    IN [p EXCEPT !.saved = SubSeq(@, 1, Len(@) - 1),
                 !.children = Append(prev, Wrap(head, SubSeq(c, 1, until)))
                              \o SubSeq(c, until + 1, Len(c))]

\* Parser::expected: an empty Error node where the trailing trivia start.
expected(p, thing) ==
    LET c == p.children
        i == trivia_start(p)
    IN [p EXCEPT !.children =
          SubSeq(c, 1, i) \o <<ErrorNode(<<"expected", thing>>, <<>>)>>
          \o SubSeq(c, i + 1, Len(c))]

\* Parser::unexpected: the token at hand is eaten into an Error node.
unexpected(p) ==
    IF p.eof THEN p
    ELSE perform_end(eat(perform_begin(p)),
                     ErrorNode(<<"unexpected", p.cur.kind>>, <<>>))

\* Parser::expected_found.
expected_found(p, thing) ==
    IF p.eof THEN expected(p, thing)
    ELSE perform_end(eat(perform_begin(p)),
                     ErrorNode(<<"expected", thing, "found", p.cur.kind>>, <<>>))

\* Parser::expect.
expect(p, kind) ==
    IF at_kind(p, kind) THEN [eat(p) EXCEPT !.res = TRUE]
    ELSE [expected(p, kind) EXCEPT !.res = FALSE]

\* Parser::start_group: the mode of the group is entered and its opening
\* delimiter eaten.  A parenthesis in math stays in math.
start_group(p, kind) ==
    LET q == [p EXCEPT !.groups = Append(@, [kind |-> kind, prev_mode |-> p.mode]),
                       !.mode = IF kind \in {"Bracket", "Strong", "Emph"}
                                THEN "Markup"
                                ELSE IF p.mode = "Math" \/ kind = "Math"
                                THEN "Math" ELSE "Code"]
    IN IF kind \in {"Expr", "Imports"} THEN repeek(q) ELSE eat(q)

\* The closing delimiter of a group and whether it is required.
Terminator(kind) ==
    CASE kind = "Brace" -> [kind |-> "RightBrace", required |-> TRUE]
      [] kind = "Bracket" -> [kind |-> "RightBracket", required |-> TRUE]
      [] kind = "Paren" -> [kind |-> "RightParen", required |-> TRUE]
      [] kind = "Strong" -> [kind |-> "Star", required |-> TRUE]
      [] kind = "Emph" -> [kind |-> "Underscore", required |-> TRUE]
      [] kind = "Math" -> [kind |-> "Dollar", required |-> TRUE]
      [] kind = "Expr" -> [kind |-> "Semicolon", required |-> FALSE]
      [] OTHER -> [kind |-> "None", required |-> FALSE]

\* The rescan at the end of a group whose mode differs from the mode
\* around it: the trailing trivia eaten in code mode are handed back.
Rescan(p, group_mode) ==
    LET rescanned(q) == [q EXCEPT !.prev_end = q.cur_start]
    IN rescanned(
         Fetch(IF group_mode # "Markup"
               THEN [p EXCEPT !.children = SubSeq(@, 1, trivia_start(p))]
               ELSE p,
               IF group_mode # "Markup"
               THEN p.cur_start - SumLen(SubSeq(p.children, trivia_start(p) + 1,
                                                Len(p.children)))
               ELSE p.prev_end))

\* The rescan is made if the mode around the group is another.
end_rescan(r, group_mode) ==
    IF r.mode # group_mode THEN Rescan(r, group_mode) ELSE r

\* Parser::end_group, the group taken off the stack: `end` is what closes
\* it, q the parser in the mode around it.
end_group_left(q, end, group_mode) ==
    repeek(
      IF end.kind # "None" /\ q.cur.kind = end.kind
      THEN [eat([q EXCEPT !.unterminated_group = FALSE])
              EXCEPT !.stray_terminator = q.stray_terminator]
      ELSE end_rescan(IF end.required
                      THEN [expected(q, end.kind)
                              EXCEPT !.unterminated_group = TRUE]
                      ELSE q,
                      group_mode))

\* Parser::end_group.
end_group(p) ==
    end_group_left([p EXCEPT !.groups = SubSeq(@, 1, Len(@) - 1),
                             !.mode = p.groups[Len(p.groups)].prev_mode],
                   Terminator(p.groups[Len(p.groups)].kind), p.mode)

----------------------------------------------------------------------------
(* The grammar (parse/mod.rs).  Each function takes the parser and returns *)
(* the parser it leaves behind; a ParseResult is its `res`, the at_start   *)
(* that markup_node updates is its `flag`.                                 *)

\* Markup { min_indent: usize::MAX }, the indent of a markup line.
usize_MAX == 2147483647

\* UnOp::from_token and UnOp::precedence.
UnOpPrec == [k \in {"Plus", "Minus", "Not"} |-> IF k = "Not" THEN 4 ELSE 7]
\* BinOp::from_token with BinOp::precedence and BinOp::assoc.
BinOps ==
    [k \in {"Plus", "Minus", "Star", "Slash", "EqEq", "In", "And", "Or", "Eq",
            "PlusEq"} |->
        CASE k \in {"Star", "Slash"} -> [prec |-> 6, left |-> TRUE]
          [] k \in {"Plus", "Minus"} -> [prec |-> 5, left |-> TRUE]
          [] k \in {"EqEq", "In"} -> [prec |-> 4, left |-> TRUE]
          [] k = "And" -> [prec |-> 3, left |-> TRUE]
          [] k = "Or" -> [prec |-> 2, left |-> TRUE]
          [] OTHER -> [prec |-> 1, left |-> FALSE]]
\* BinOp::NotIn, which no single token stands for.
NotIn == [prec |-> 4, left |-> TRUE]

RECURSIVE markup(_, _), markup_nodes(_, _), markup_node(_, _)
RECURSIVE markup_indented(_, _), indented_nodes(_, _, _)
RECURSIVE markup_line(_, _), line_nodes(_, _, _)
RECURSIVE strong(_), emph(_), heading(_, _)
RECURSIVE list_node(_, _), enum_node(_, _), desc_node(_, _)
RECURSIVE markup_expr(_), expr_prec(_, _, _), expr_loop(_, _, _, _)
RECURSIVE expr(_)
RECURSIVE primary(_, _), code_block(_), code(_), content_block(_)
RECURSIVE args(_), arg_blocks(_), let_expr(_)
RECURSIVE parenthesized(_, _), collection(_, _, _, _, _, _), item(_, _)
RECURSIVE FilterFrom(_, _, _, _)

\* Has the token at hand moved on since the parser was `before`?  If not,
\* the loop that asks has stalled.
Progress(before, p) ==
    IF p.cur_start > before.cur_start THEN p ELSE [p EXCEPT !.stalled = TRUE]

\* markup.
markup(p, at_start) ==
    perform_end(markup_nodes(perform_begin(p), at_start),
                Inner("Markup", 0, <<>>))

\* `while !p.eof() { markup_node(p, &mut at_start); }`.
markup_nodes(p, at_start) ==
    LET rest(q) == markup_nodes(Progress(p, q), q.flag)
    IN IF p.eof \/ p.stalled THEN p ELSE rest(markup_node(p, at_start))

\* markup_indented, after the spaces in front.
markup_indented_body(q, min_indent) ==
    marker_end(indented_nodes(q, FALSE, min_indent), Len(q.children), "Markup",
               min_indent)

\* markup_indented.
markup_indented(p, min_indent) ==
    markup_indented_body(eat_spaces(p, FALSE), min_indent)

\* The loop of markup_indented: it ends before a newline that is followed
\* by less than min_indent columns.
indented_nodes(p, at_start, min_indent) ==
    LET rest(q) == indented_nodes(Progress(p, q), q.flag, min_indent)
    IN IF p.eof \/ p.stalled THEN p
       ELSE IF /\ p.cur.kind = "Space" /\ p.cur.n >= 1
               /\ column(p, p.cursor) < min_indent
       THEN p
       ELSE rest(markup_node(p, at_start))

\* markup_line; `stop` is the kind at which f returns true.
markup_line(p, stop) ==
    perform_end(line_nodes(perform_begin(eat_spaces(p, FALSE)), FALSE, stop),
                Inner("Markup", usize_MAX, <<>>))

\* The loop of markup_line.
line_nodes(p, at_start, stop) ==
    LET rest(q) == line_nodes(Progress(p, q), q.flag, stop)
    IN IF \/ p.eof \/ p.stalled
          \/ (p.cur.kind = "Space" /\ p.cur.n >= 1) \/ p.cur.kind = stop
       THEN p
       ELSE rest(markup_node(p, at_start))

\* markup_node, with an at_start that no node clears.
markup_node_keepsStart(p, at_start) ==
    LET k == p.cur.kind
    IN IF p.eof THEN [p EXCEPT !.flag = at_start]
       ELSE IF k = "Space"
       THEN [eat(p) EXCEPT !.flag = at_start \/ p.cur.n > 0]
       ELSE [(CASE k = "Text" -> eat(p)
                [] k = "Star" -> strong(p)
                [] k = "Underscore" -> emph(p)
                [] k = "Eq" -> heading(p, at_start)
                [] k = "Minus" -> list_node(p, at_start)
                [] k = "Plus" -> enum_node(p, at_start)
                [] k = "Slash" -> desc_node(p, at_start)
                [] k = "Colon" ->
                     marker_convert(eat(p), Len(p.children), "Text", <<":">>)
                [] k \in {"Ident", "Let"} -> markup_expr(p)
                [] k = "LeftBrace" -> code_block(p)
                [] k = "LeftBracket" -> content_block(p)
                [] k = "Error" -> eat(p)
                [] OTHER -> unexpected(p))
             EXCEPT !.flag = at_start]
\* markup_node.
markup_node(p, at_start) ==
    LET k == p.cur.kind
    IN IF p.eof THEN [p EXCEPT !.flag = at_start]
       ELSE IF k = "Space"
       THEN [eat(p) EXCEPT !.flag = at_start \/ p.cur.n > 0]
       ELSE [(CASE k = "Text" -> eat(p)
                [] k = "Star" -> strong(p)
                [] k = "Underscore" -> emph(p)
                [] k = "Eq" -> heading(p, at_start)
                [] k = "Minus" -> list_node(p, at_start)
                [] k = "Plus" -> enum_node(p, at_start)
                [] k = "Slash" -> desc_node(p, at_start)
                [] k = "Colon" ->
                     marker_convert(eat(p), Len(p.children), "Text", <<":">>)
                [] k \in {"Ident", "Let"} -> markup_expr(p)
                [] k = "LeftBrace" -> code_block(p)
                [] k = "LeftBracket" -> content_block(p)
                [] k = "Error" -> eat(p)
                [] OTHER -> unexpected(p))
             EXCEPT !.flag = FALSE]

\* strong.
strong(p) ==
    perform_end(end_group(markup(start_group(perform_begin(p), "Strong"), FALSE)),
                Inner("Strong", 0, <<>>))

\* emph.
emph(p) ==
    perform_end(end_group(markup(start_group(perform_begin(p), "Emph"), FALSE)),
                Inner("Emph", 0, <<>>))

\* The heading that a run of `=` begins.
heading_title(q, marker) ==
    marker_end(markup_line(eat_spaces(q, FALSE), "Label"), marker, "Heading", 0)

\* The fallback of heading turns every `=` of the run into one Text child.
heading_oneChild(p, at_start) ==
    LET marker == Len(p.children)
        title(q, titled) ==
            IF at_start /\ (q.eof \/ q.cur.kind = "Space") THEN titled
            ELSE marker_convert([q EXCEPT !.children = SubSeq(@, 1, marker + 1)],
                                marker, "Text",
                                SubSeq(p.src, p.cur_start + 1, q.prev_end))
    IN title(eat_all(eat(p), "Eq"), heading_title(eat_all(eat(p), "Eq"), marker))

\* heading.
heading(p, at_start) ==
    LET marker == Len(p.children)
        title(q, titled) ==
            IF at_start /\ (q.eof \/ q.cur.kind = "Space") THEN titled
            ELSE marker_convert(q, marker, "Text",
                                SubSeq(p.src, p.cur_start + 1, q.prev_end))
    IN title(eat_all(eat(p), "Eq"), heading_title(eat_all(eat(p), "Eq"), marker))

\* The part list_node, enum_node and desc_node share: the marker token is
\* eaten; a space after it at the start of a line begins the item.
ItemStart(p, at_start) ==
    LET spaced(r) == [r EXCEPT !.res = ~r.eof]
        marked(q) ==
            IF at_start /\ at_kind(q, "Space") /\ q.cur.n = 0
            THEN spaced(eat(q))
            ELSE [q EXCEPT !.res = FALSE]
    IN marked(eat(p))

\* list_node.
list_node(p, at_start) ==
    LET marker == Len(p.children)
        text == SubSeq(p.src, p.cur_start + 1, p.cursor)
        min_indent == column(p, p.cursor)
        entry(q, body) ==
            IF q.res THEN marker_end(body, marker, "ListItem", 0)
            ELSE marker_convert(q, marker, "Text", text)
    IN entry(ItemStart(p, at_start),
             markup_indented(ItemStart(p, at_start), min_indent))

\* enum_node.
enum_node(p, at_start) ==
    LET marker == Len(p.children)
        text == SubSeq(p.src, p.cur_start + 1, p.cursor)
        min_indent == column(p, p.cursor)
        entry(q, body) ==
            IF q.res THEN marker_end(body, marker, "EnumItem", 0)
            ELSE marker_convert(q, marker, "Text", text)
    IN entry(ItemStart(p, at_start),
             markup_indented(ItemStart(p, at_start), min_indent))

\* desc_node, after the term and its colon.
desc_body(term, marker, min_indent) ==
    IF ~term.res THEN term
    ELSE marker_end(markup_indented(term, min_indent), marker, "DescItem", 0)

\* desc_node.
desc_node(p, at_start) ==
    LET marker == Len(p.children)
        text == SubSeq(p.src, p.cur_start + 1, p.cursor)
        min_indent == column(p, p.cursor)
        entry(q, body) ==
            IF q.res THEN body ELSE marker_convert(q, marker, "Text", text)
    IN entry(ItemStart(p, at_start),
             desc_body(expect(markup_line(ItemStart(p, at_start), "Colon"),
                              "Colon"),
                       marker, min_indent))

\* markup_expr.
markup_expr(p) ==
    LET stmt == p.cur.kind = "Let"
        end(r) == end_group(IF stmt /\ r.res /\ ~r.eof
                            THEN expected(r, "semicolon or line break") ELSE r)
    IN end(expr_prec(start_group(p, "Expr"), TRUE, 0))

\* The loop of expr_prec is entered if what came before it succeeded.
expr_more(q, marker, atomic, min_prec) ==
    IF ~q.res THEN q ELSE expr_loop(q, marker, atomic, min_prec)

\* An expression in markup takes the operators that follow it as well.
expr_prec_binaryInMarkup(p, atomic, min_prec) ==
    LET marker == Len(p.children)
        unary(operand) == IF ~operand.res THEN operand
                          ELSE marker_end(operand, marker, "Unary", 0)
    IN expr_more(IF ~p.eof /\ p.cur.kind \in DOMAIN UnOpPrec
                 THEN unary(expr_prec(eat(p), FALSE, UnOpPrec[p.cur.kind]))
                 ELSE primary(p, FALSE),
                 marker, FALSE, min_prec)

\* expr_prec, up to its loop.
expr_prec(p, atomic, min_prec) ==
    LET marker == Len(p.children)
        unary(operand) == IF ~operand.res THEN operand
                          ELSE marker_end(operand, marker, "Unary", 0)
    IN expr_more(IF ~p.eof /\ p.cur.kind \in DOMAIN UnOpPrec /\ ~atomic
                 THEN unary(expr_prec(eat(p), atomic, UnOpPrec[p.cur.kind]))
                 ELSE primary(p, atomic),
                 marker, atomic, min_prec)

\* ident.
ident(p) ==
    IF at_kind(p, "Ident") THEN [eat(p) EXCEPT !.res = TRUE]
    ELSE [expected_found(p, "identifier") EXCEPT !.res = FALSE]

\* The right operand of every operator parsed from the operator's own
\* precedence on.
next_prec_same(op) == op.prec
\* Assoc::Left => prec += 1, Assoc::Right => {}.
next_prec(op) == IF op.left THEN op.prec + 1 ELSE op.prec

\* What the loop of expr_prec meets: the arguments of a call, then, unless
\* the expression is atomic, a method call or a field access after a dot,
\* or a binary operator.  A `not` is eaten before the precedence of `not in`
\* is compared with min_prec.
expr_next(p, atomic) ==
    LET direct(q) == peek_direct(q) \in {"LeftParen", "LeftBracket"}
        meets(q, what, op) == [p |-> q, what |-> what, op |-> op]
        access(q) ==
            meets(q, IF ~q.res THEN "None"
                     ELSE IF direct(q) THEN "MethodCall" ELSE "FieldAccess",
                  NotIn)
        not_in(q) ==
            IF at_kind(q, "In") THEN meets(q, "Binary", NotIn)
            ELSE meets([expected(q, "keyword in") EXCEPT !.res = FALSE],
                       "None", NotIn)
    IN IF direct(p) THEN meets(p, "FuncCall", NotIn)
       ELSE IF atomic THEN meets([p EXCEPT !.res = TRUE], "None", NotIn)
       ELSE IF at_kind(p, "Dot") THEN access(ident(eat(p)))
       ELSE IF at_kind(p, "Not") THEN not_in(eat(p))
       ELSE IF p.eof \/ p.cur.kind \notin DOMAIN BinOps
       THEN meets([p EXCEPT !.res = TRUE], "None", NotIn)
       ELSE meets(p, "Binary", BinOps[p.cur.kind])

\* One round of the loop of expr_prec.
expr_step(m, marker, atomic, min_prec) ==
    CASE m.what \in {"FuncCall", "MethodCall"} ->
             expr_more(marker_end(args(m.p), marker, m.what, 0), marker, atomic,
                       min_prec)
      [] m.what = "FieldAccess" ->
             expr_more(marker_end(m.p, marker, "FieldAccess", 0), marker, atomic,
                       min_prec)
      [] m.what = "Binary" ->
             IF m.op.prec < min_prec THEN [m.p EXCEPT !.res = TRUE]
             ELSE expr_more(marker_end(
                              expr_prec(eat(m.p), atomic, next_prec(m.op)),
                              marker, "Binary", 0),
                            marker, atomic, min_prec)
      [] OTHER -> m.p

\* The loop of expr_prec.
expr_loop(p, marker, atomic, min_prec) ==
    expr_step(expr_next(p, atomic), marker, atomic, min_prec)

\* expr.
expr(p) == expr_prec(p, FALSE, 0)

\* The error is reported where the token is and the token is left.
nothing_left(p) == [expected(p, "expression") EXCEPT !.res = FALSE]
\* The last arm of primary: the token at hand is no expression and is eaten
\* into an Error node.
nothing(p) == [expected_found(p, "expression") EXCEPT !.res = FALSE]

\* `marker.perform(p, NodeKind::Closure, expr)` after the arrow.
closure(q, marker) == marker_end(expr(eat(q)), marker, "Closure", 0)

\* The identifier case of primary: an arrow after the identifier makes it
\* the lone parameter of a closure.
primary_ident(q, marker, atomic) ==
    IF ~atomic /\ at_kind(q, "Arrow")
    THEN closure(marker_end(q, marker, "Params", 0), marker)
    ELSE [q EXCEPT !.res = TRUE]

\* primary, with literal.
primary(p, atomic) ==
    LET k == IF p.eof THEN "None" ELSE p.cur.kind
    IN CASE k = "Int" -> [eat(p) EXCEPT !.res = TRUE]
         [] k = "Ident" -> primary_ident(eat(p), Len(p.children), atomic)
         [] k = "LeftParen" -> parenthesized(p, atomic)
         [] k = "LeftBrace" -> [code_block(p) EXCEPT !.res = TRUE]
         [] k = "LeftBracket" -> [content_block(p) EXCEPT !.res = TRUE]
         [] k = "Let" -> let_expr(p)
         [] k = "Error" -> [eat(p) EXCEPT !.res = FALSE]
         [] OTHER -> nothing(p)

\* Marker::end with an Error kind: the children after the marker become
\* one Error node.
marker_error(p, marker, msg) ==
    LET c == p.children
        until == IF trivia_start(p) > marker THEN trivia_start(p) ELSE marker
    IN [p EXCEPT !.children =
          SubSeq(c, 1, marker)
          \o <<ErrorNode(msg, SubSeq(c, marker + 1, until))>>
          \o SubSeq(c, until + 1, Len(c))]

\* Parser::expected_at: an empty Error node at the marker.
expected_at(p, marker, thing) ==
    LET c == p.children
    IN [p EXCEPT !.children =
          SubSeq(c, 1, marker) \o <<ErrorNode(<<"expected", thing>>, <<>>)>>
          \o SubSeq(c, marker + 1, Len(c))]

\* The key of a pair: the text of its first child if that is an identifier.
KeyOfPair(x) ==
    IF x.children # <<>> /\ x.children[1].kind = "Ident"
    THEN <<x.children[1].text>> ELSE <<>>

\* What the closures of array, dict, params and args say to a child, given
\* the keys used so far: the message of the error, or nothing.
FilterVerdict(rule, x, used) ==
    LET k == x.kind
        dup == KeyOfPair(x) # <<>> /\ KeyOfPair(x)[1] \in used
        last == IF x.children = <<>> THEN "None"
                ELSE x.children[Len(x.children)].kind
    IN CASE rule = "array" ->
                IF k \in {"Named", "Keyed"} THEN <<"expected expression">>
                ELSE <<>>
         [] rule = "dict" ->
                IF k \in {"LeftParen", "RightParen"} THEN <<>>
                ELSE IF k \in {"Named", "Keyed"}
                THEN (IF dup THEN <<"pair has duplicate key">> ELSE <<>>)
                ELSE IF k \in {"Spread", "Comma", "Colon"} THEN <<>>
                ELSE <<"expected named or keyed pair">>
         [] rule = "params" ->
                IF k \in {"LeftParen", "RightParen", "Named", "Ident", "Comma"}
                THEN <<>>
                ELSE IF k = "Spread" /\ last = "Ident" THEN <<>>
                ELSE <<"expected identifier, named pair or argument sink">>
         [] OTHER ->
                IF k = "Named" /\ dup THEN <<"duplicate argument">> ELSE <<>>

\* The loop of Marker::filter_children from child i on: errors and, in
\* code, trivia are passed over; a child the closure rejects is wrapped in
\* an Error node.
FilterFrom(p, i, rule, used) ==
    LET x == p.children[i]
        seen == IF x.kind \in {"Named", "Keyed"} /\ rule \in {"dict", "args"}
                THEN used \cup {KeyOfPair(x)[j] : j \in DOMAIN KeyOfPair(x)}
                ELSE used
        verdict == FilterVerdict(rule, x, used)
    IN IF i > Len(p.children) THEN p
       ELSE IF x.kind = "Error" \/ (p.mode # "Markup" /\ x.kind = "Space")
       THEN FilterFrom(p, i + 1, rule, used)
       ELSE IF verdict = <<>> THEN FilterFrom(p, i + 1, rule, seen)
       ELSE FilterFrom([p EXCEPT !.children[i] = ErrorNode(verdict, <<x>>)],
                       i + 1, rule, seen)

\* Marker::filter_children.
filter_children(p, marker, rule) == FilterFrom(p, marker + 1, rule, {})

\* array, dict and params.
array(p, marker) ==
    marker_end(filter_children(p, marker, "array"), marker, "Array", 0)
dict(p, marker) ==
    marker_end(filter_children(p, marker, "dict"), marker, "Dict", 0)
params(p, marker) ==
    marker_end(filter_children(p, marker, "params"), marker, "Params", 0)

\* A collection of one item without a comma is never a group.
CollectionKind_noGroup(kind, items, can_group) ==
    IF kind = "None" THEN "Positional" ELSE kind
\* The kind that collection returns.
CollectionKind(kind, items, can_group) ==
    IF can_group /\ items = 1 THEN "Group"
    ELSE IF kind = "None" THEN "Positional" ELSE kind

\* parenthesized, after its group: an array, a dictionary, a parenthesized
\* expression or the parameter list of a closure.
parenthesized_end(q, marker, colon, atomic) ==
    IF colon THEN [dict(q, marker) EXCEPT !.res = TRUE]
    ELSE IF ~atomic /\ at_kind(q, "Arrow") THEN closure(params(q, marker), marker)
    ELSE [(CASE q.ret = "Group" -> marker_end(q, marker, "Parenthesized", 0)
             [] q.ret = "Positional" -> array(q, marker)
             [] OTHER -> dict(q, marker))
            EXCEPT !.res = TRUE]

\* parenthesized, inside its group: a leading colon is eaten.
parenthesized_group(g, marker, atomic) ==
    parenthesized_end(
        end_group(collection(IF at_kind(g, "Colon") THEN eat(g) ELSE g, TRUE,
                             "None", 0, TRUE, <<>>)),
        marker, at_kind(g, "Colon"), atomic)

\* parenthesized.
parenthesized(p, atomic) ==
    parenthesized_group(start_group(p, "Paren"), Len(p.children), atomic)

\* collection, as its loop: the kind found so far, the number of items,
\* can_group and the marker of a missing comma are the loop's variables.
\* The kind it returns is the parser's `ret`.
collection(p, keyed, kind, items, can_group, missing) ==
    LET comma(q, k, can) ==
            IF q.eof
            THEN [q EXCEPT !.ret = CollectionKind(k, items + 1, can)]
            ELSE IF at_kind(q, "Comma")
            THEN collection(Progress(p, eat(q)), keyed, k, items + 1, FALSE,
                            <<>>)
            ELSE collection(Progress(p, q), keyed, k, items + 1, can,
                            <<trivia_start(q)>>)
        found(q, k, can) ==
            comma(IF missing # <<>> THEN expected_at(q, missing[1], "comma")
                  ELSE q, k, can)
        failed(q) ==
            collection(Progress(p, q), keyed, "Group", items, can_group,
                       missing)
        one(q) ==
            IF q.res
            THEN found(q,
                       IF q.ret = "Named" /\ kind = "None" THEN "Named"
                       ELSE IF q.ret # "Spread" /\ kind = "None"
                       THEN "Positional" ELSE kind,
                       can_group /\ q.ret # "Spread"
                                 /\ ~(q.ret = "Named" /\ kind = "None"))
            ELSE failed(IF at_kind(q, "Comma") THEN eat(q) ELSE q)
    IN IF p.eof \/ p.stalled
       THEN [p EXCEPT !.ret = CollectionKind(kind, items, can_group)]
       ELSE one(item(p, keyed))

\* item, after the first expression q; a spread ends there.
item_pair(q, marker, keyed, spread) ==
    LET after == IF marker + 1 <= Len(q.children)
                 THEN q.children[marker + 1].kind ELSE "None"
        as(r, kind) == IF ~r.res THEN r ELSE [r EXCEPT !.ret = kind]
        key == after = "Ident" \/ (after = "Str" /\ keyed)
        bad == marker_error(q, marker,
                   <<"expected identifier">>
                   \o (IF keyed THEN <<"or string">> ELSE <<>>)
                   \o (IF after # "None" THEN <<"found", after>> ELSE <<>>))
        value(r) ==
            IF key
            THEN as(marker_end(r, marker,
                               IF after = "Str" THEN "Keyed" ELSE "Named", 0),
                    "Named")
            ELSE [marker_end(r, marker, "Named", 0) EXCEPT !.res = FALSE]
    IN IF spread THEN as(marker_end(q, marker, "Spread", 0), "Spread")
       ELSE IF ~q.res THEN q
       ELSE IF ~at_kind(q, "Colon") THEN [q EXCEPT !.ret = "None"]
       ELSE value(expr(eat(IF key THEN q ELSE bad)))

\* item: an expression, a spread or a named pair; the kind it returns is
\* the parser's `ret`.
item(p, keyed) ==
    item_pair(expr(IF at_kind(p, "Dots") THEN eat(p) ELSE p), Len(p.children),
              keyed, at_kind(p, "Dots"))

\* code_block.
code_block(p) ==
    perform_end(end_group(code(start_group(perform_begin(p), "Brace"))),
                Inner("CodeBlock", 0, <<>>))

\* code.
code(p) ==
    LET end(r) == end_group(IF r.res /\ ~r.eof
                            THEN expected(r, "semicolon or line break") ELSE r)
    IN IF p.eof \/ p.stalled THEN p
       ELSE code(Progress(p, eat_spaces(end(expr(start_group(p, "Expr"))),
                                        TRUE)))

\* content_block.
content_block(p) ==
    perform_end(end_group(markup(start_group(perform_begin(p), "Bracket"), TRUE)),
                Inner("ContentBlock", 0, <<>>))

\* The parenthesized part of args.
arg_list(p) ==
    IF at_kind(p, "LeftParen")
    THEN filter_children(
             end_group(collection(start_group(p, "Paren"), FALSE, "None", 0,
                                  TRUE, <<>>)),
             Len(p.children), "args")
    ELSE p

\* args: an argument list in parentheses and the content blocks that
\* follow it.
args(p) ==
    IF peek_direct(p) \notin {"LeftParen", "LeftBracket"}
    THEN [expected_found(p, "argument list") EXCEPT !.res = FALSE]
    ELSE [perform_end(arg_blocks(arg_list(perform_begin(p))),
                      Inner("Args", 0, <<>>))
            EXCEPT !.res = TRUE]

\* `while p.peek_direct() == Some(&NodeKind::LeftBracket)`.
arg_blocks(p) ==
    IF peek_direct(p) = "LeftBracket" THEN arg_blocks(content_block(p)) ELSE p

\* The initializer of let_expr.
let_init(name) ==
    IF ~name.res THEN name
    ELSE IF at_kind(name, "Eq") THEN expr_prec(eat(name), FALSE, 0)
    ELSE name

\* let_expr, without parameters.
let_expr(p) ==
    perform_end(let_init(ident(eat(perform_begin(p)))),
                Inner("LetBinding", 0, <<>>))

\* The parser at the end of parse.
parsed(text) == markup(Parser_new(text, "Markup"), TRUE)

\* parse.
parse(text) == parsed(text).children[1]

----------------------------------------------------------------------------
(* The typed view of a syntax tree (syntax/ast.rs), for the nodes the      *)
(* texts below parse to.                                                   *)

\* Does the tree hold an error?  Source::ast fails on such a tree.
RECURSIVE HasError(_)
HasError(node) ==
    \/ node.kind = "Error"
    \/ \E i \in DOMAIN node.children : HasError(node.children[i])

\* The name of an identifier; names are single characters in the texts
\* that are evaluated.
NameOf(text) == IF Len(text) = 1 THEN text[1] ELSE "long name"

\* The operator of a Unary or Binary node: its first operator token.
OpOf(children, table) ==
    LET i == CHOOSE i \in DOMAIN children :
                /\ children[i].kind \in DOMAIN table
                /\ \A j \in 1 .. i - 1 : children[j].kind \notin DOMAIN table
    IN table[children[i].kind]

ExprKinds == {"Ident", "Int", "CodeBlock", "LetBinding", "Unary", "Binary"}

RECURSIVE ExprOf(_), ExprsOf(_)
\* Expr::from_untyped.
ExprOf(node) ==
    LET es == ExprsOf(node.children)
    IN CASE node.kind = "Ident" -> Ident(NameOf(node.text))
         [] node.kind = "Int" -> Lit(IntV(node.n))
         [] node.kind = "CodeBlock" -> CodeBlock(es)
         [] node.kind = "LetBinding" -> LetBinding(es[1].name, Tail(es))
         [] node.kind = "Unary" ->
                Unary(OpOf(node.children, [Plus |-> "Pos", Minus |-> "Neg"]),
                      es[1])
         [] node.kind = "Binary" ->
                Binary(OpOf(node.children,
                            [Plus |-> "Add", Minus |-> "Sub", Star |-> "Mul"]),
                       es[1], es[2])

\* The children that are expressions, in order.
ExprsOf(children) ==
    IF children = <<>> THEN <<>>
    ELSE (IF children[1].kind \in ExprKinds THEN <<ExprOf(children[1])>>
          ELSE <<>>) \o ExprsOf(Tail(children))

RECURSIVE MarkupNodesOf(_)
\* Markup::nodes: the children that are markup nodes, in order.
MarkupNodesOf(children) ==
    IF children = <<>> THEN <<>>
    ELSE LET c == children[1]
         IN (CASE c.kind = "Space" ->
                     <<IF c.n < 2 THEN Space ELSE Parbreak>>
               [] c.kind = "Text" -> <<Text(c.text)>>
               [] c.kind \in ExprKinds -> <<ExprOf(c)>>
               [] OTHER -> <<>>)
            \o MarkupNodesOf(Tail(children))

\* A source file: its text, its syntax tree and the root's markup nodes.
SourceNew(text) ==
    LET source(tree) ==
            [ok |-> ~HasError(tree),
             nodes |-> IF HasError(tree) THEN <<>>
                       ELSE MarkupNodesOf(tree.children),
             tree |-> tree, text |-> text]
    IN source(parse(text))

----------------------------------------------------------------------------
(* Parsing: a text is parsed into the one source of the world; a script    *)
(* is evaluated after that.                                                *)

\* Longest tail enumerated after the head of a markup text.
MaxChars == 3
\* Longest tail enumerated after the head of a script.
MaxTail == 4

\* The characters of the markup texts.
MarkupChars == {"x", " ", "\n", "=", "-", "+", "/", ":", "*", "_", "[", "]"}

\* Pairs that begin a comment or a dash shorthand, which no text of the
\* model holds.
NoShorthand(text) ==
    \A i \in 1 .. Len(text) - 1 :
        <<text[i], text[i + 1]>> \notin {<<"/", "/">>, <<"/", "*">>, <<"-", "-">>}

\* What a markup text begins with: nothing, a list item, the term of a
\* description item, a run of two `=`, or a `*` and a line break.
MarkupHeads ==
    <<<<>>, <<"-", " ", "x", "\n">>, <<"/", " ", "x">>, <<"=", "=">>,
      <<"*", "\n">>>>

\* `#let x = 2; #x`, `#let x = 2; {x` and `#let x = 2; `.
LetX2 == <<"#", "l", "e", "t", " ", "x", " ", "=", " ", "2", ";", " ">>
Heads == <<LetX2 \o <<"#", "x">>, LetX2 \o <<"{", "x">>, LetX2>>
\* The characters of the tails of the scripts.
ScriptChars == {" ", "+", "3", "x", "#", "}"}

\* parse applied to a markup text.
ParseText ==
    /\ pc = "idle"
    /\ \E h \in DOMAIN MarkupHeads, tail \in Seqs(MarkupChars, MaxChars) :
          /\ NoShorthand(MarkupHeads[h] \o tail)
          /\ world' = <<SourceNew(MarkupHeads[h] \o tail)>>
    /\ pc' = "parsed"
    /\ UNCHANGED <<call, input, vm, result>>

\* parse applied to a script.
ParseScript ==
    /\ pc = "idle"
    /\ \E h \in DOMAIN Heads, tail \in Seqs(ScriptChars, MaxTail) :
          world' = <<SourceNew(Heads[h] \o tail)>>
    /\ pc' = "loaded"
    /\ UNCHANGED <<call, input, vm, result>>

ParseNext == ParseText \/ ParseScript \/ CallEval

ParseSpec == Init /\ [][ParseNext]_vars

\* The text and the tree of the parsed source.
Parsed == pc # "idle"
SourceText == world[1].text
Tree == world[1].tree

----------------------------------------------------------------------------
(* Lengths of the syntax tree.                                             *)

RECURSIVE LensAddUp(_)
\* Every node below `node` that has children is as long as its children
\* together.
LensAddUp(node) ==
    \/ node.children = <<>>
    \/ /\ node.len = SumLen(node.children)
       /\ \A i \in DOMAIN node.children : LensAddUp(node.children[i])

RECURSIVE LeavesOf(_)
\* The leaves of a tree, in the order of the text.
LeavesOf(node) ==
    IF node.children = <<>> THEN <<node>>
    ELSE LET below == [i \in DOMAIN node.children |-> LeavesOf(node.children[i])]
             cat[i \in 0 .. Len(below)] ==
                 IF i = 0 THEN <<>> ELSE cat[i - 1] \o below[i]
         IN cat[Len(below)]

----------------------------------------------------------------------------
(* Expressions embedded in markup.                                         *)

\* `#let x = 2; #x + 3` and `#let x = 2; {x+3}`.
HashXPlus3 == Heads[1] \o <<" ", "+", " ", "3">>
BlockXPlus3 == Heads[2] \o <<"+", "3", "}">>

\* The script has been evaluated to a module.
Evaluated == pc = "done" /\ call = "eval" /\ result.st = "Ok"

\* The content of the module, as a list of its elements.
Elements == Flatten(<<result.v.mcontent>>)

\* C10 as stated: `#let x = 2; #x + 3` evaluates and the content holds
\* Text("5"), the display of the sum.
C10_AsStated ==
    (pc = "done" /\ SourceText = HashXPlus3) =>
        /\ result.st = "Ok"
        /\ \E i \in DOMAIN Elements : Elements[i] = TextC(<<"5">>)

\* C10: an expression embedded in markup by `#` is atomic.  No child of
\* the root markup is a Unary or Binary node; `#let x = 2; #x + 3`
\* evaluates to the display of x followed by the markup text ` + 3`; a
\* script without a code block never yields the text of the sum; and
\* `#let x = 2; {x+3}` does yield Text("5").
C10_AtomicInMarkup ==
    /\ Parsed =>
          \A i \in DOMAIN Tree.children :
              Tree.children[i].kind \notin {"Unary", "Binary"}
    /\ (Evaluated /\ SourceText = HashXPlus3) =>
          result.v.mcontent =
              SequenceC(<<Empty, [t |-> "Space"], TextC(<<"2">>),
                          [t |-> "Space"], TextC(<<"+">>), [t |-> "Space"],
                          TextC(<<"3">>)>>)
    /\ (Evaluated /\ \A i \in DOMAIN SourceText : SourceText[i] # "{") =>
          \A i \in DOMAIN Elements : Elements[i] # TextC(<<"5">>)
    /\ (pc = "done" /\ SourceText = BlockXPlus3) =>
          /\ result.st = "Ok"
          /\ \E i \in DOMAIN Elements : Elements[i] = TextC(<<"5">>)

\* `#let x = 2; #x + 3` has been evaluated: the identifier is an
\* expression of the root markup and the `+` after it a Text node.
C10_Witness ==
    /\ Evaluated
    /\ SourceText = HashXPlus3
    /\ \E i \in DOMAIN Tree.children :
          /\ Tree.children[i].kind = "Ident"
          /\ Tree.children[i + 2].kind = "Text"
          /\ Tree.children[i + 2].text = <<"+">>

----------------------------------------------------------------------------
(* Code texts: a code block whose tokens are words separated by single     *)
(* spaces.                                                                 *)

\* Most operators of a chain of binary operations.
MaxOps == 3
\* Most words between the parentheses of a group.
MaxItems == 4
\* Most words of a code block of arbitrary tokens.
MaxWords == 4

RECURSIVE Join(_)
\* The words with one space between each two.
Join(words) ==
    IF words = <<>> THEN <<>>
    ELSE IF Len(words) = 1 THEN words[1]
    ELSE words[1] \o <<" ">> \o Join(Tail(words))

\* A source file of which only the syntax tree is looked at: its typed
\* view is not taken.
SourceTree(text) ==
    LET source(tree) == [ok |-> ~HasError(tree), nodes |-> <<>>,
                         tree |-> tree, text |-> text]
    IN source(parse(text))

\* `{` words `}`.
Block(words) == <<"{">> \o Join(words) \o <<"}">>

\* The binary operators of the chains, with their levels in the table of
\* precedences: `*`, `+`, `-`, `==`, `in`, `not in`, `and`, `or`, `=`, `+=`.
OpWords ==
    <<(<<"*">>), (<<"+">>), (<<"-">>), (<<"=", "=">>), (<<"i", "n">>),
      (<<"n", "o", "t", " ", "i", "n">>), (<<"a", "n", "d">>), (<<"o", "r">>),
      (<<"=">>), (<<"+", "=">>)>>
Levels == <<6, 5, 5, 4, 4, 4, 3, 2, 1, 1>>
\* The operands of a chain, in the order of the text.
Operands == <<"x", "e", "t", "l", "d">>

\* The chain `x op1 e op2 t ..` of the operators with the given indices.
Chain(ops) ==
    LET words == [i \in 1 .. 2 * Len(ops) + 1 |->
                     IF i % 2 = 1 THEN <<Operands[(i + 1) \div 2]>>
                     ELSE OpWords[ops[i \div 2]]]
    IN Block(words)

\* parse applied to a code block that holds a chain of binary operations.
ParseOperators ==
    /\ pc = "idle"
    /\ \E n \in 1 .. MaxOps : \E ops \in [1 .. n -> DOMAIN OpWords] :
          /\ world' = <<SourceTree(Chain(ops))>>
          /\ input' = [t |-> "Operators", ops |-> ops]
    /\ pc' = "parsed"
    /\ call' = "parse_operators"
    /\ UNCHANGED <<vm, result>>

\* The words of the parenthesized groups: `x`, `2`, the pairs `x: 2` and
\* `e: 2`, the spread `..x`, the comma and the colon.
NamedWords == {<<"x", ":", " ", "2">>, <<"e", ":", " ", "2">>}
SpreadWords == {<<".", ".", "x">>}
GroupWords ==
    {<<"x">>, <<"2">>, <<",">>, <<":">>} \cup NamedWords \cup SpreadWords

\* `(` words `)`, alone in a code block or followed by `=> x`.
Group(words, arrow) ==
    Block(<<(<<"(">>)>> \o words \o <<(<<")">>)>>
          \o (IF arrow THEN <<(<<"=", ">">>), (<<"x">>)>> ELSE <<>>))

\* parse applied to a code block that holds a parenthesized group.
ParseGroup ==
    /\ pc = "idle"
    /\ \E words \in Seqs(GroupWords, MaxItems), arrow \in BOOLEAN :
          /\ world' = <<SourceTree(Group(words, arrow))>>
          /\ input' = [t |-> "Group", words |-> words, arrow |-> arrow]
    /\ pc' = "parsed"
    /\ call' = "parse_group"
    /\ UNCHANGED <<vm, result>>

\* The words of the code blocks of arbitrary tokens.
CodeWords ==
    {<<"x">>, <<"(">>, <<")">>, <<",">>, <<":">>, <<";">>, <<"n", "o", "t">>,
     <<"}">>, <<"[">>, <<"\n">>}

\* parse applied to the text of arbitrary tokens after a `{`.
ParseWords ==
    /\ pc = "idle"
    /\ \E words \in Seqs(CodeWords, MaxWords) :
          /\ world' = <<SourceTree(<<"{">> \o Join(words))>>
          /\ input' = [t |-> "Words", words |-> words]
    /\ pc' = "parsed"
    /\ call' = "parse_words"
    /\ UNCHANGED <<vm, result>>

CodeNext == ParseText \/ ParseOperators \/ ParseGroup \/ ParseWords

CodeSpec == Init /\ [][CodeNext]_vars

\* The expression of the one statement of the code block that the text is.
Statement ==
    LET c == Tree.children[1].children
    IN c[CHOOSE i \in DOMAIN c :
            c[i].kind \notin {"LeftBrace", "RightBrace", "Space"}]

\* The children of a node that are neither trivia nor operator tokens.
Operated(node) ==
    SelectSeq(node.children,
              LAMBDA c : c.kind \notin DOMAIN BinOps \cup {"Space", "Not"})

----------------------------------------------------------------------------
(* Precedence and associativity of binary operators.                       *)

RECURSIVE Grouping(_)
\* How a tree groups its operands: an operand is its name, a Binary node
\* its two operands' groupings in parentheses.
Grouping(node) ==
    IF node.kind = "Binary"
    THEN <<"(">> \o Grouping(Operated(node)[1])
         \o Grouping(Operated(node)[2]) \o <<")">>
    ELSE node.text

RECURSIVE TableGrouping(_, _, _)
\* The grouping that the table of precedences gives the operands lo .. hi
\* of a chain: the chain splits at its operator of lowest level, at the
\* last such operator if the level groups to the left and at the first if
\* it groups to the right (level 1).
TableGrouping(ops, lo, hi) ==
    LET at == lo .. hi - 1
        low == CHOOSE i \in at : \A j \in at : Levels[ops[i]] <= Levels[ops[j]]
        lowest == {i \in at : Levels[ops[i]] = Levels[ops[low]]}
        split == IF Levels[ops[low]] = 1
                 THEN CHOOSE i \in lowest : \A j \in lowest : i <= j
                 ELSE CHOOSE i \in lowest : \A j \in lowest : j <= i
    IN IF lo = hi THEN <<Operands[lo]>>
       ELSE <<"(">> \o TableGrouping(ops, lo, split)
            \o TableGrouping(ops, split + 1, hi) \o <<")">>

\* A chain of binary operations has been parsed.
ChainParsed == pc = "parsed" /\ call = "parse_operators"

\* C14: every chain of operands and binary operators parses without an
\* error to the tree that the table of precedences gives: the operands
\* are grouped at the operator of lowest precedence, to the left among
\* operators of one level from 2 to 6 and to the right among assignments.
\* (Which operator a node of `not in` carries is C15's matter; the
\* grouping of its operands is part of this property.)
C14_PrecedenceTable ==
    ChainParsed =>
        /\ ~HasError(Tree)
        /\ Grouping(Statement) = TableGrouping(input.ops, 1, Len(input.ops) + 1)

\* `x - e * t - l` has been parsed to `((x - (e * t)) - l)`.
C14_Witness ==
    /\ ChainParsed
    /\ input.ops = <<3, 1, 3>>
    /\ Grouping(Statement) =
          <<"(", "(", "x", "(", "e", "t", ")", ")", "l", ")">>

----------------------------------------------------------------------------
(* The operator `not in`.                                                  *)

\* Binary::op of the typed view: the first operator token of the node, an
\* `in` after a `not` of the same node being NotIn.
Binary_op(node) ==
    LET c == node.children
        i == CHOOSE i \in DOMAIN c :
                /\ c[i].kind \in DOMAIN BinOps
                /\ \A j \in 1 .. i - 1 : c[j].kind \notin DOMAIN BinOps
    IN IF c[i].kind = "In" /\ \E j \in 1 .. i - 1 : c[j].kind = "Not"
       THEN "NotIn" ELSE c[i].kind

\* The kinds of the children of a node, spaces left out.
KindsOf(node) ==
    LET c == SelectSeq(node.children, LAMBDA x : x.kind # "Space")
    IN [i \in DOMAIN c |-> c[i].kind]

\* `x OP e not in t` has been parsed, OP being `*`, `+` or `-`.
NotInAfterTighter ==
    /\ ChainParsed
    /\ Len(input.ops) = 2
    /\ Levels[input.ops[1]] > 4
    /\ input.ops[2] = 6

\* C15: `x OP e not in t`, for an operator OP of higher precedence than 4,
\* parses to one Binary node with the operator NotIn whose left operand is
\* the node of `x OP e` and whose right operand is `t`; the `not` is a
\* child of the node that holds the `in`, and of no other.
C15_NotInOneOperator ==
    NotInAfterTighter =>
        /\ Statement.kind = "Binary"
        /\ Binary_op(Statement) = "NotIn"
        /\ KindsOf(Statement) = <<"Binary", "Not", "In", "Ident">>
        /\ KindsOf(Operated(Statement)[1]) =
              <<"Ident", CodePunct[OpWords[input.ops[1]][1]], "Ident">>
        /\ Operated(Statement)[2].text = <<"t">>

----------------------------------------------------------------------------
(* Parenthesized groups.                                                   *)

RECURSIVE Split(_, _)
\* The items of a group: the runs of words between its commas, `run`
\* being the one at hand.
Split(words, run) ==
    IF words = <<>> THEN (IF run = <<>> THEN <<>> ELSE <<run>>)
    ELSE IF words[1] = <<",">>
    THEN (IF run = <<>> THEN <<>> ELSE <<run>>) \o Split(Tail(words), <<>>)
    ELSE Split(Tail(words), Append(run, words[1]))

\* An item that is a spread, and one that is a named pair.
IsSpread(it) == it[1] \in SpreadWords
IsNamed(it) == it[1] \in NamedWords \/ (Len(it) >= 2 /\ it[2] = <<":">>)

\* What the group of the given words is to be, by its items alone.
GroupKind(words) ==
    LET items == Split(words, <<>>)
        plain == SelectSeq(items, LAMBDA it : ~IsSpread(it))
        comma == \E i \in DOMAIN words : words[i] = <<",">>
    IN IF words = <<>> THEN "Array"
       ELSE IF words[1] = <<":">> THEN "Dict"
       ELSE IF plain # <<>> /\ IsNamed(plain[1]) THEN "Dict"
       ELSE IF Len(items) = 1 /\ ~comma /\ plain = items THEN "Parenthesized"
       ELSE "Array"

\* A parenthesized group has been parsed without an error.
GroupParsed == pc = "parsed" /\ call = "parse_group" /\ ~HasError(Tree)

----------------------------------------------------------------------------
(* Progress of the loops of the grammar.                                   *)

\* The parser has ended with one node and none of its loops has stalled.
OneRoot(p) == ~p.stalled /\ Len(p.children) = 1

----------------------------------------------------------------------------
(* Reparsing (parse/mod.rs): a block or a run of markup elements is parsed *)
(* again from the text that begins at it.  The prefix only moves the       *)
(* columns of the first line; every call of the model has an empty prefix. *)

\* Longest text handed to a reparse function.
MaxText == 4

\* An Option: None, or Some((nodes, terminated, replaced)).
None == [some |-> FALSE, nodes |-> <<>>, terminated |-> FALSE, replaced |-> 0]
Some(nodes, terminated, replaced) ==
    [some |-> TRUE, nodes |-> nodes, terminated |-> terminated,
     replaced |-> replaced]

\* Parser::with_prefix, the prefix being empty.
Parser_with_prefix(text, mode) == Parser_new(text, mode)

\* Parser::terminated: every group was closed and no closing delimiter was
\* met outside its group.
Parser_terminated(p) ==
    p.groups = <<>> /\ ~p.unterminated_group /\ ~p.stray_terminator

\* The end of reparse_code_block and reparse_content_block: the length of
\* the block is not compared with end_pos.
reparse_end_anyLength(p, end_pos) ==
    IF ~Parser_terminated(p) THEN None
    ELSE Some(<<p.children[1]>>, TRUE, 1)
\* The end of reparse_code_block and reparse_content_block: p.consume()?,
\* then the comparison of the length of the first node with end_pos.
reparse_end(p, end_pos) ==
    IF ~Parser_terminated(p) THEN None
    ELSE IF p.children[1].len # end_pos THEN None
    ELSE Some(<<p.children[1]>>, TRUE, 1)

\* reparse_code_block.
reparse_code_block(text, end_pos) ==
    LET begun(p) == IF ~at_kind(p, "LeftBrace") THEN None
                    ELSE reparse_end(code_block(p), end_pos)
    IN begun(Parser_with_prefix(text, "Code"))

\* reparse_content_block.
reparse_content_block(text, end_pos) ==
    LET begun(p) == IF ~at_kind(p, "LeftBracket") THEN None
                    ELSE reparse_end(content_block(p), end_pos)
    IN begun(Parser_with_prefix(text, "Code"))

\* The characters of the texts that are reparsed as a block.
BlockChars == {"{", "}", "[", "]", "x", " "}

\* The reparse function `name` returned r on the input x.
Reparsed(name, x, r) ==
    /\ call' = name
    /\ input' = x
    /\ result' = r
    /\ pc' = "done"
    /\ UNCHANGED <<world, vm>>

\* reparse_code_block applied to a text and an end position.
CallReparseCodeBlock ==
    /\ pc = "idle"
    /\ \E text \in Seqs(BlockChars, MaxText) : \E end_pos \in 0 .. Len(text) :
          Reparsed("reparse_code_block",
                   [text |-> text, end_pos |-> end_pos, open |-> "{",
                    close |-> "RightBrace"],
                   reparse_code_block(text, end_pos))

\* reparse_content_block applied to a text and an end position.
CallReparseContentBlock ==
    /\ pc = "idle"
    /\ \E text \in Seqs(BlockChars, MaxText) : \E end_pos \in 0 .. Len(text) :
          Reparsed("reparse_content_block",
                   [text |-> text, end_pos |-> end_pos, open |-> "[",
                    close |-> "RightBracket"],
                   reparse_content_block(text, end_pos))

RECURSIVE elements(_, _, _, _, _, _, _)
RECURSIVE references(_, _, _, _, _, _, _)

\* The end of reparse_markup_elements.
elements_end(p, reference, replaced, stopped) ==
    LET res == p.children
        count == IF p.eof /\ ~stopped THEN Len(reference) ELSE replaced
    IN IF ~Parser_terminated(p) THEN None
       ELSE Some(IF stopped THEN SubSeq(res, 1, Len(res) - 1) ELSE res, TRUE,
                 count)

RECURSIVE SameNode(_, _)
\* SyntaxNode's ==: the same kind with the same payload, the same length
\* and the same children.
SameNode(a, b) ==
    /\ a.kind = b.kind
    /\ a.text = b.text
    /\ a.n = b.n
    /\ a.len = b.len
    /\ Len(a.children) = Len(b.children)
    /\ \A i \in DOMAIN a.children : SameNode(a.children[i], b.children[i])

\* The reference node at hand is compared with the recent node whatever
\* its offset is.
Converged_anyOffset(node, offset, recent, recent_start) ==
    node # <<>> /\ SameNode(node[1], recent)
\* The trees have converged: the reference node at hand is equal to the
\* recent node and at the same position.
Converged(node, offset, recent, recent_start) ==
    node # <<>> /\ offset = recent_start /\ SameNode(node[1], recent)

\* The test at the head of the loop of reparse_markup_elements, with a
\* space that needs two line breaks.
below_indent_blankLine(p, min_indent) ==
    /\ p.cur.kind = "Space" /\ p.cur.n > 1
    /\ column(p, p.cursor) < min_indent
\* The test at the head of the loop of reparse_markup_elements: the token
\* at hand is a space with a line break and the text after it starts left
\* of min_indent.
below_indent(p, min_indent) ==
    /\ p.cur.kind = "Space" /\ p.cur.n >= 1
    /\ column(p, p.cursor) < min_indent

\* The offset moves on when there is no reference node at hand as well.
passed_always(offset, node) ==
    offset + (IF node # <<>> THEN node[1].len ELSE 1)
\* `if let Some(node) = node { offset += node.len() as isize; }`.
passed(offset, node) ==
    offset + (IF node # <<>> THEN node[1].len ELSE 0)

\* The arguments with one more point of the inner loop on record: the
\* offset, the count of replaced nodes, the number of reference nodes
\* taken before the one at hand, and whether the count is decremented
\* there.
Point(a, node, next, offset, replaced, dec) ==
    [a EXCEPT !.points =
        Append(@, [offset |-> offset, replaced |-> replaced,
                   before |-> IF node # <<>> THEN next - 2 ELSE next - 1,
                   dec |-> dec])]

\* The result r with the points of the inner loop.
WithPoints(r, a) == r @@ [points |-> a.points]

\* The loop `'outer: while !p.eof()` of reparse_markup_elements.  `a`
\* holds the arguments end_pos, reference and min_indent and the points
\* of the inner loop passed so far; `node` is the reference node at hand
\* (none or one), `next` the index of the node that iter.next() yields.
elements(p, at_start, a, node, next, offset, replaced) ==
    LET parsed_node(q) ==
            IF q.prev_end <= a.end_pos
            THEN elements(Progress(p, q), q.flag, a, node, next, offset,
                          replaced)
            ELSE references(Progress(p, q), q.flag, a, node, next, offset,
                            replaced)
    IN IF p.eof \/ p.stalled
       THEN WithPoints(elements_end(p, a.reference, replaced, FALSE), a)
       ELSE IF below_indent(p, a.min_indent) THEN WithPoints(None, a)
       ELSE parsed_node(markup_node(p, at_start))

\* The loop `while offset <= recent_start` of reparse_markup_elements.
references(p, at_start, a, node, next, offset, replaced) ==
    LET recent == p.children[Len(p.children)]
        recent_start == p.prev_end - recent.len
        at(dec) == Point(a, node, next, offset, replaced, dec)
        left(to) == Point(at(FALSE), <<>>, next, to, replaced, FALSE)
    IN IF offset > recent_start
       THEN elements(p, at_start, at(FALSE), node, next, offset, replaced)
       ELSE IF Converged(node, offset, recent, recent_start)
       THEN WithPoints(elements_end(p, a.reference, replaced - 1, TRUE),
                       at(TRUE))
       ELSE IF next > Len(a.reference)
       THEN elements(p, at_start, left(passed(offset, node)), <<>>, next,
                     passed(offset, node), replaced)
       ELSE references(p, at_start, at(FALSE), <<a.reference[next]>>,
                       next + 1, passed(offset, node), replaced + 1)

\* reparse_markup_elements, the prefix being empty.
reparse_markup_elements(text, end_pos, differential, reference, at_start, min_indent) ==
    elements(Parser_with_prefix(text, "Markup"), at_start,
             [end_pos |-> end_pos, reference |-> reference,
              min_indent |-> min_indent, points |-> <<>>],
             <<>>, 1, differential, 0)

\* The characters of the texts that are reparsed as markup elements.
ElementChars == {"x", " ", "\n", "]"}
\* The reference nodes: the texts `x` and `xx`, a space, a line break,
\* and the sequences of up to two of them.
ReferenceNodes ==
    {Leaf(Tok("Text", <<"x">>, 0, 1)), Leaf(Tok("Text", <<"x", "x">>, 0, 2)),
     Leaf(Tok("Space", <<>>, 0, 1)), Leaf(Tok("Space", <<>>, 1, 1))}
References == Seqs(ReferenceNodes, 2)

\* reparse_markup_elements applied to a text, an end position, a shift of
\* the reference nodes, the reference nodes, and a least indent.
CallReparseMarkupElements ==
    /\ pc = "idle"
    /\ \E text \in Seqs(ElementChars, MaxText - 1), reference \in References,
          differential \in -1 .. 1, min_indent \in 0 .. 1 :
          \E end_pos \in 0 .. Len(text) :
             Reparsed("reparse_markup_elements",
                      [text |-> text, end_pos |-> end_pos,
                       differential |-> differential,
                       reference |-> reference, min_indent |-> min_indent],
                      reparse_markup_elements(text, end_pos, differential,
                                              reference, TRUE, min_indent))

ReparseNext ==
    \/ CallReparseCodeBlock
    \/ CallReparseContentBlock
    \/ CallReparseMarkupElements

ReparseSpec == Init /\ [][ReparseNext]_vars

----------------------------------------------------------------------------
(* The stop of reparse_markup_elements.                                    *)

RECURSIVE Steps(_, _)
\* The parser after each markup_node of a run over the whole of its text.
Steps(p, at_start) ==
    LET more(q) == <<q>> \o Steps(q, q.flag)
    IN IF p.eof THEN <<>> ELSE more(markup_node(p, at_start))

\* reparse_markup_elements has returned.
ElementsCall == pc = "done" /\ call = "reparse_markup_elements"

\* The run over the text of the call.
Run == Steps(Parser_with_prefix(input.text, "Markup"), TRUE)

\* The node parsed most recently at step k of a run, and where it starts.
Recent(run, k) == run[k].children[Len(run[k].children)]
RecentStart(run, k) == run[k].prev_end - Recent(run, k).len

\* Where the i-th reference node starts once shifted by the differential.
ShiftedStart(i) ==
    input.differential + SumLen(SubSeq(input.reference, 1, i - 1))

\* The node parsed at step k ends after end_pos, is equal to the i-th
\* reference node and starts where that node starts once shifted.
Match(run, k, i) ==
    /\ run[k].prev_end > input.end_pos
    /\ SameNode(input.reference[i], Recent(run, k))
    /\ ShiftedStart(i) = RecentStart(run, k)

\* The steps with a match, and the first of them.
Matching(run) ==
    {k \in DOMAIN run : \E i \in DOMAIN input.reference : Match(run, k, i)}
FirstMatch(run) == CHOOSE k \in Matching(run) : \A j \in Matching(run) : k <= j

\* The result of the call is that of a stop at the first match of the run,
\* or at the end of the text if nothing matches.
StopsAt(run, first) ==
    IF Matching(run) # {}
    THEN /\ result.nodes =
               SubSeq(run[first].children, 1, Len(run[first].children) - 1)
         /\ \E i \in DOMAIN input.reference :
               Match(run, first, i) /\ result.replaced = i - 1
    ELSE /\ result.replaced = Len(input.reference)
         /\ result.nodes = (IF run = <<>> THEN <<>> ELSE run[Len(run)].children)

StopsAtFirst(run) == StopsAt(run, FirstMatch(run))

\* C18: when reparse_markup_elements returns nodes, it has stopped at the
\* first parsed node that ends after end_pos and is equal to a reference
\* node that starts, shifted by the differential, where the parsed node
\* starts: the nodes parsed before that node are returned and `replaced`
\* is the number of reference nodes before the matched one.  If no node
\* matches up to the end of the text, all parsed nodes are returned and
\* `replaced` is the number of reference nodes.
C18_StopsAtFirstMatch ==
    (ElementsCall /\ result.some) => StopsAtFirst(Run)

\* `x x` reparsed with end_pos 1 against the reference nodes `x` and a
\* space, not shifted: the space ends after end_pos and is the second
\* reference node at its place, so `x` is returned and one node replaced.
C18_Witness ==
    /\ ElementsCall
    /\ input.text = <<"x", " ", "x">>
    /\ input.end_pos = 1
    /\ input.differential = 0
    /\ Len(input.reference) = 2
    /\ input.reference[1].kind = "Text"
    /\ input.reference[2].kind = "Space"
    /\ input.reference[2].n = 0
    /\ result.some
    /\ FirstMatch(Run) = 2
    /\ result.replaced = 1
    /\ Len(result.nodes) = 1
    /\ result.nodes[1].kind = "Text"

----------------------------------------------------------------------------
(* The block reparsers.                                                    *)

\* reparse_code_block or reparse_content_block has returned.
BlockReparsed ==
    pc = "done" /\ call \in {"reparse_code_block", "reparse_content_block"}

\* The text of the call begins with the delimiter that opens the block.
Opens == input.text # <<>> /\ input.text[1] = input.open

\* The parser of the call when the block has been parsed.
BlockParser ==
    IF call = "reparse_code_block"
    THEN code_block(Parser_with_prefix(input.text, "Code"))
    ELSE content_block(Parser_with_prefix(input.text, "Code"))

\* The last child of a node.
LastChild(node) == node.children[Len(node.children)]

\* The parser p has consumed all of the text and its first node is as
\* long as end_pos.
ConsumedAll(p) ==
    /\ p.cur.kind = "None"
    /\ SumLen(p.children) = Len(input.text)
    /\ p.children[1].len = input.end_pos

BlockEnds(p) == Parser_terminated(p) /\ p.children[1].len = input.end_pos

----------------------------------------------------------------------------
(* The least indent of reparse_markup_elements.                            *)

\* The parser before step k of a run.
StateBefore(run, k) ==
    IF k = 1 THEN Parser_with_prefix(input.text, "Markup") ELSE run[k - 1]

\* The steps of a run that the loop of the call takes: those up to the
\* first match.
Taken(run) ==
    IF Matching(run) = {} THEN DOMAIN run ELSE 1 .. FirstMatch(run)

\* Before step k the token at hand is a space with a line break, and the
\* text after it starts in a column less than min_indent.
Escapes(p) ==
    /\ p.cur.kind = "Space"
    /\ p.cur.n >= 1
    /\ column(p, p.cur_start + p.cur.len) < input.min_indent
EscapesAt(run, k) == Escapes(StateBefore(run, k))

\* The steps taken before which the line escapes, and the first of them.
Escaping(run) == {k \in Taken(run) : EscapesAt(run, k)}
FirstEscape(run) ==
    CHOOSE k \in Escaping(run) : \A j \in Escaping(run) : k <= j

\* markup_indented applied to the text of the call with its min_indent.
Indented == markup_indented(Parser_with_prefix(input.text, "Markup"), input.min_indent)

\* The indented block of q ends before the token that step k of the run
\* starts with, and the block is the last child of q.
EndsBefore(run, k, q) ==
    /\ q.cur_start = StateBefore(run, k).cur_start
    /\ q.cur.kind = "Space"
    /\ LastChild(q).kind = "Markup"

\* The call returns None if a line escapes, and markup_indented ends its
\* block at the first such line.
RejectsEscape(run, q) ==
    Escaping(run) # {} =>
        /\ ~result.some
        /\ EndsBefore(run, FirstEscape(run), q)

\* C21: reparse_markup_elements returns None whenever, before it parses a
\* node, the token at hand is a space with at least one line break and the
\* text after the space starts in a column less than min_indent; at the
\* first such space markup_indented, given the same text and min_indent,
\* ends its block.
C21_RejectsBelowIndent == ElementsCall => RejectsEscape(Run, Indented)

\* `x`, a line break and `x` with min_indent 1: the second line starts in
\* column 0, the call returns None, and markup_indented ends its block
\* after the first `x`.
C21_Witness ==
    /\ ElementsCall
    /\ input.text = <<"x", "\n", "x">>
    /\ input.min_indent = 1
    /\ input.reference = <<>>
    /\ FirstEscape(Run) = 2
    /\ ~result.some
    /\ Indented.cur_start = 1

----------------------------------------------------------------------------
(* Headings and items at the start of a line.                              *)

RECURSIVE StartsIn(_, _, _)
\* The offsets at which a node of a kind in K starts, in the nodes `seq`
\* that begin at offset o.
StartsIn(seq, o, K) ==
    IF seq = <<>> THEN {}
    ELSE (IF seq[1].kind \in K THEN {o} ELSE {})
         \cup StartsIn(seq[1].children, o, K)
         \cup StartsIn(Tail(seq), o + seq[1].len, K)

\* A markup text has been parsed.
MarkupParsed == pc = "parsed" /\ call = "none"

\* The runs of `=` of a text: where each starts and where it ends.
EqRuns(text) ==
    {i \in DOMAIN text : text[i] = "=" /\ (i = 1 \/ text[i - 1] # "=")}
EqRunEnd(text, i) == i + RunLen(text, i, {"="}) - 1

RECURSIVE LineStart(_, _)
\* Only spaces lie between the character at i and a line break before it,
\* the start of the text, or the `[` that opens a content block.
LineStart(text, i) ==
    \/ i = 1
    \/ text[i - 1] \in {"\n", "["}
    \/ text[i - 1] = " " /\ LineStart(text, i - 1)

\* The character after j is whitespace, or j is the end of the text.
SpaceOrEndAfter(text, j) == j = Len(text) \/ text[j + 1] \in {" ", "\n"}

ClosedBy(G, kind) ==
    LET open == {i \in DOMAIN G :
                    /\ G[i] = kind
                    /\ kind \in Weak => \A j \in i .. Len(G) : G[j] \in Weak}
    IN IF open = {} THEN G
       ELSE SubSeq(G, 1, (CHOOSE i \in open : \A j \in open : j <= i) - 1)

\* The group that a delimiter of markup opens or closes.
GroupOf == "[" :> "Bracket" @@ "]" :> "Bracket" @@ "*" :> "Strong" @@ "_" :> "Emph"

\* The groups open after the character c of a markup text, G being those
\* open before it: `[` opens a content block and `]` closes one; `*` and
\* `_` close the strong or emphasis they are in and open one otherwise.
Opened(G, c) ==
    IF c \notin DOMAIN GroupOf THEN G
    ELSE IF c = "[" \/ (c # "]" /\ ClosedBy(G, GroupOf[c]) = G)
    THEN Append(G, GroupOf[c])
    ELSE ClosedBy(G, GroupOf[c])

\* The character at k is a line break that follows another one in the
\* same run of whitespace.
ParBreak(text, k) ==
    /\ text[k] = "\n"
    /\ \E i \in 1 .. k - 1 :
          text[i] = "\n" /\ \A j \in i .. k : text[j] \in {" ", "\n"}

\* The groups G without the strong and emphasis at their end, which a
\* space with two line breaks ends.
Unbroken(G) ==
    LET strict == {i \in DOMAIN G : G[i] \notin Weak}
    IN IF strict = {} THEN <<>>
       ELSE SubSeq(G, 1, CHOOSE i \in strict : \A j \in strict : j <= i)

RECURSIVE OpenGroups(_, _)
\* The groups open after the first k characters of a markup text; a `*`
\* or `_` inside a word is text.
OpenGroups(text, k) ==
    IF k = 0 THEN <<>>
    ELSE IF InWord(text, k - 1) THEN OpenGroups(text, k - 1)
    ELSE IF ParBreak(text, k) THEN Unbroken(OpenGroups(text, k - 1))
    ELSE Opened(OpenGroups(text, k - 1), text[k])

\* The character at k closes a group that is open before it.
Closes(G, c) == c \in {"]", "*", "_"} /\ ClosedBy(G, GroupOf[c]) # G
ClosesGroup(text, k) == k <= Len(text) /\ Closes(OpenGroups(text, k - 1), text[k])

\* The run of `=` that ends at j may begin a heading: whitespace, the end
\* of the text or the delimiter that closes an open group follows.
TitleMayFollow(text, j) == SpaceOrEndAfter(text, j) \/ ClosesGroup(text, j + 1)

\* The markup nodes of the root of a text, one after the other.
RootRun(text) == Steps(Parser_new(text, "Markup"), TRUE)

\* at_start after step k of a run: a space sets it if it has a line
\* break and keeps it otherwise, every other node clears it.  `before` is
\* the parser before the step and `flag` the at_start it began with.
FlagAfter(before, flag, after) ==
    after.flag <=> /\ before.cur.kind = "Space"
                   /\ flag \/ before.cur.n > 0

FlagRule(text, run) ==
    /\ run # <<>> => FlagAfter(Parser_new(text, "Markup"), TRUE, run[1])
    /\ \A k \in 2 .. Len(run) : FlagAfter(run[k - 1], run[k - 1].flag, run[k])

\* The headings of a tree are the runs of `=` at the start of a line that
\* a title may follow, and the items begin at the start of a line.
HeadingsAtLineStart(text, tree) ==
    /\ \A i \in EqRuns(text) :
          (i - 1) \in StartsIn(<<tree>>, 0, {"Heading"})
          <=> LineStart(text, i) /\ TitleMayFollow(text, EqRunEnd(text, i))
    /\ \A o \in StartsIn(<<tree>>, 0, {"ListItem", "EnumItem", "DescItem"}) :
          LineStart(text, o + 1)

----------------------------------------------------------------------------
(* Math (parse/mod.rs): scripts and fractions.                             *)

RECURSIVE math_nodes(_), math_node_prec(_, _, _), math_loop(_, _, _, _)
RECURSIVE group(_, _, _, _)

\* Parser::peek as a kind: None at the end of the text and of a group.
peek(p) == IF p.eof THEN "None" ELSE p.cur.kind

\* `while !p.eof() { math_node(p); }`.
math_nodes(p) ==
    LET rest(q) == math_nodes(Progress(p, q))
    IN IF p.eof \/ p.stalled THEN p ELSE rest(math_node_prec(p, 0, "None"))

\* math.
math(p) ==
    perform_end(end_group(math_nodes(start_group(perform_begin(p), "Math"))),
                Inner("Math", 0, <<>>))

\* math_node.
math_node(p) == math_node_prec(p, 0, "None")

\* align.
align(p) ==
    perform_end(eat_all(eat(perform_begin(p)), "Amp"), Inner("Align", 0, <<>>))

\* The closing delimiter of a math group becomes an atom.
group_end(q, r) == marker_convert(end_group(q), Len(q.children), "Atom", <<r>>)

\* group.
group(p, kind, l, r) ==
    perform_end(
        group_end(math_nodes(marker_convert(start_group(perform_begin(p), kind),
                                            0, "Atom", <<l>>)), r),
        Inner("Math", 0, <<>>))

\* math_primary; the texts of the model hold no bracket and no brace.
math_primary(p) ==
    IF p.eof THEN p
    ELSE CASE p.cur.kind \in {"Space", "Atom", "Ident"} -> eat(p)
           [] p.cur.kind = "LeftParen" -> group(p, "Paren", "(", ")")
           [] p.cur.kind = "Amp" -> align(p)
           [] OTHER -> unexpected(p)

\* The operators of math: the kind of node, the precedence, whether the
\* operator is left-associative, and the token at which the operand stops.
MathOps ==
    "Underscore" :> [kind |-> "Script", prec |-> 2, left |-> FALSE, stop |-> "Hat"]
    @@ "Hat" :> [kind |-> "Script", prec |-> 2, left |-> FALSE, stop |-> "Underscore"]
    @@ "Slash" :> [kind |-> "Frac", prec |-> 1, left |-> TRUE, stop |-> "None"]

\* The precedence of the operand, every operator taken as left-associative.
math_next_prec_allLeft(op) == op.prec + 1
\* The precedence of the operand: `match assoc`.
math_next_prec(op) == IF op.left THEN op.prec + 1 ELSE op.prec

\* `if p.eat_if(Underscore) || p.eat_if(Hat) { math_node_prec(p, prec, None) }`.
math_second(q, prec) ==
    IF at_kind(q, "Underscore") \/ at_kind(q, "Hat")
    THEN math_node_prec(eat(q), prec, "None")
    ELSE q

\* One round of the loop of math_node_prec at the operator op.
math_round(p, marker, op) ==
    marker_end(math_second(math_node_prec(eat(p), math_next_prec(op), op.stop),
                           math_next_prec(op)),
               marker, op.kind, 0)

\* The loop of math_node_prec.
math_loop(p, marker, min_prec, stop) ==
    IF peek(p) = stop \/ peek(p) \notin DOMAIN MathOps THEN p
    ELSE IF MathOps[peek(p)].prec < min_prec THEN p
    ELSE math_loop(math_round(p, marker, MathOps[peek(p)]), marker, min_prec,
                   stop)

\* math_node_prec.
math_node_prec(p, min_prec, stop) ==
    math_loop(math_primary(p), Len(p.children), min_prec, stop)

\* Longest math text enumerated between the dollars.
MaxMath == 5
\* Longest chain of math operators.
MaxScripts == 5

\* The characters of the math texts.
MathChars == {"a", "_", "^", "/", "(", ")", " "}
\* The operators and the operands of the chains of math.
ScriptOps == {"_", "^", "/"}
MathOperands == <<"a", "b", "c", "d", "e", "f">>

\* `$`, a text, `$`.
Dollars(body) == <<"$">> \o body \o <<"$">>

\* The chain `a op1 b op2 c ..` of math.
MathChain(ops) ==
    [i \in 1 .. 2 * Len(ops) + 1 |->
        IF i % 2 = 1 THEN MathOperands[(i + 1) \div 2] ELSE ops[i \div 2]]

\* The source whose tree is the Math node that math makes of a text.
MathSource(text) ==
    LET source(p) == [ok |-> ~HasError(p.children[1]), nodes |-> <<>>,
                      tree |-> p.children[1], text |-> text]
    IN source(math(Parser_new(text, "Math")))

\* math has parsed the text x.
MathParsedAs(name, x, text) ==
    /\ world' = <<MathSource(text)>>
    /\ input' = x
    /\ pc' = "parsed"
    /\ call' = name
    /\ UNCHANGED <<vm, result>>

\* math applied to a text between dollars.
ParseMath ==
    /\ pc = "idle"
    /\ \E body \in Seqs(MathChars, MaxMath) :
          MathParsedAs("math", [t |-> "Math", body |-> body], Dollars(body))

\* math applied to a chain of scripts and fractions between dollars.
ParseScripts ==
    /\ pc = "idle"
    /\ \E n \in 1 .. MaxScripts : \E ops \in [1 .. n -> ScriptOps] :
          MathParsedAs("math_chain", [t |-> "Chain", ops |-> ops],
                       Dollars(MathChain(ops)))

MathNext == ParseMath \/ ParseScripts

MathSpec == Init /\ [][MathNext]_vars

----------------------------------------------------------------------------
(* Scripts and fractions.                                                  *)

\* The kinds of the children of a node, and of those that are no space.
Kinds(node) == [i \in DOMAIN node.children |-> node.children[i].kind]
IsSolid(kind) == kind # "Space"
Solid(node) == SelectSeq(Kinds(node), IsSolid)

\* How often a kind is among the kinds c.
Count(c, kind) == Cardinality({i \in DOMAIN c : c[i] = kind})

\* The children c of a Script: one base, then `_` or `^` with its operand
\* and at most once the other of the two with its operand; the base is no
\* Script and no child is a Frac.
ScriptShape(c) ==
    /\ Len(c) \in 2 .. 5
    /\ c[1] \notin {"Underscore", "Hat", "Script", "Frac"}
    /\ c[2] \in {"Underscore", "Hat"}
    /\ Count(c, "Underscore") <= 1
    /\ Count(c, "Hat") <= 1
    /\ Count(c, "Frac") = 0
    /\ \A i \in 2 .. Len(c) - 1 :
          c[i] \in {"Underscore", "Hat"} => c[i + 1] \notin {"Underscore", "Hat"}

\* The children c of a Frac: the numerator, `/` and the denominator, which
\* is no Frac.
FracShape(c) ==
    /\ Len(c) \in 2 .. 3
    /\ c[1] \notin {"Underscore", "Hat", "Slash"}
    /\ c[2] = "Slash"
    /\ Len(c) = 3 => c[3] \notin {"Frac", "Underscore", "Hat", "Slash"}

RECURSIVE Shaped(_)
\* Every Script and every Frac of a tree has its shape.
Shaped(node) ==
    /\ node.kind = "Script" => ScriptShape(Solid(node))
    /\ node.kind = "Frac" => FracShape(Solid(node))
    /\ \A i \in DOMAIN node.children : Shaped(node.children[i])

RECURSIVE RightChain(_, _, _), LeftChain(_, _)
\* The node is a chain of n scripts of one kind nested to the right.
RightChain(node, op, n) ==
    IF n = 0 THEN node.kind = "Atom"
    ELSE /\ node.kind = "Script"
         /\ Kinds(node) = <<"Atom", op, IF n = 1 THEN "Atom" ELSE "Script">>
         /\ RightChain(node.children[3], op, n - 1)
\* The node is a chain of n fractions nested to the left.
LeftChain(node, n) ==
    IF n = 0 THEN node.kind = "Atom"
    ELSE /\ node.kind = "Frac"
         /\ Kinds(node) = <<IF n = 1 THEN "Atom" ELSE "Frac", "Slash", "Atom">>
         /\ LeftChain(node.children[1], n - 1)

\* A chain of math has been parsed.
MathChainParsed == pc = "parsed" /\ call = "math_chain"

\* The node between the dollars of a chain groups as its operators say.
Grouped(ops, node) ==
    /\ (\A i \in DOMAIN ops : ops[i] = "_") =>
          RightChain(node, "Underscore", Len(ops))
    /\ (\A i \in DOMAIN ops : ops[i] = "^") => RightChain(node, "Hat", Len(ops))
    /\ (\A i \in DOMAIN ops : ops[i] = "/") => LeftChain(node, Len(ops))
    /\ ops = <<"_", "^">> =>
          Kinds(node) = <<"Atom", "Underscore", "Atom", "Hat", "Atom">>
    /\ ops = <<"^", "_">> =>
          Kinds(node) = <<"Atom", "Hat", "Atom", "Underscore", "Atom">>
    /\ ops = <<"/", "_">> => Kinds(node) = <<"Atom", "Slash", "Script">>
    /\ ops = <<"_", "/">> => Kinds(node) = <<"Script", "Slash", "Atom">>

\* C23: every Script node has one base and directly holds at most one `_`
\* operand and at most one `^` operand; scripts of one kind nest to the
\* right (`a_b_c` is a_(b_c)) and the base of a Script is never a Script;
\* `/` groups to the left into Frac nodes (`a/b/c` is (a/b)/c) and the
\* denominator of a Frac is never a Frac; scripts bind tighter than `/`:
\* no Script directly holds a Frac.
C23_ScriptsAndFractions ==
    /\ (pc = "parsed" /\ call \in {"math", "math_chain"}) => Shaped(Tree)
    /\ MathChainParsed =>
          /\ Kinds(Tree) = <<"Dollar", Tree.children[2].kind, "Dollar">>
          /\ Grouped(input.ops, Tree.children[2])

\* `$a_b_c$` has been parsed: the Script of `a` holds the Script of `b`.
C23_Witness ==
    /\ MathChainParsed
    /\ input.ops = <<"_", "_">>
    /\ Tree.children[2].kind = "Script"
    /\ Tree.children[2].children[3].kind = "Script"
    /\ Tree.children[2].children[3].children[1].text = <<"b">>

----------------------------------------------------------------------------
(* The wrap rule: blocks of statements around a wrap rule.                 *)

\* The statements of the blocks: a string, reads of `w` and `x`, a
\* binding of `x`, wrap rules that bind `w` and read `w` or `x`, a break.
WrapExprs ==
    {StrA, Ident("w"), Ident("x"), LetBinding("x", <<One>>),
     WrapRule("w", Ident("w")), WrapRule("w", Ident("x")), BreakStmt}

\* The Vms the blocks are entered with: no flow is pending.
WrapVms == {VmNew(<<1>>, 1, sc, <<>>, <<1>>) : sc \in EntryScopes}

\* eval_code applied to statements around a wrap rule.
CallWrapCode ==
    /\ pc = "idle"
    /\ \E exprs \in Seqs(WrapExprs, MaxLen), m \in WrapVms :
          Called("wrap_code", [t |-> "Exprs", exprs |-> exprs], m,
                 Plain(eval_code(m, exprs, 1, <<>>)))

\* eval_markup applied to nodes around a wrap rule.
CallWrapMarkup ==
    /\ pc = "idle"
    /\ \E nodes \in Seqs(WrapExprs, MaxLen), m \in WrapVms :
          Called("wrap_markup", [t |-> "Exprs", exprs |-> nodes], m,
                 Plain(eval_markup(m, nodes, 1, <<>>)))

WrapNext == CallWrapCode \/ CallWrapMarkup

WrapSpec == Init /\ [][WrapNext]_vars

\* A block around a wrap rule has been evaluated.
WrapCall == pc = "done" /\ call \in {"wrap_code", "wrap_markup"}

\* The first wrap rule of a list of statements.
Wraps(exprs) == {i \in DOMAIN exprs : exprs[i].t = "Wrap"}
FirstWrap(exprs) == CHOOSE i \in Wraps(exprs) : \A j \in Wraps(exprs) : i <= j

\* The statements before and after position i, evaluated on their own by
\* the function that the call is of; before the first statement the
\* output is none, or a sequence of no content.
EvalPart(inCode, m, part) ==
    IF inCode THEN Plain(eval_code(m, part, 1, <<>>))
    ELSE Plain(eval_markup(m, part, 1, <<>>))
EvalBefore(inCode, m, exprs, i) ==
    IF i = 1 THEN Ok(IF inCode THEN NoneV ELSE SequenceC(<<>>), m)
    ELSE EvalPart(inCode, m, SubSeq(exprs, 1, i - 1))
EvalAfter(inCode, m, exprs, i) == EvalPart(inCode, m, SubSeq(exprs, i + 1, Len(exprs)))

\* The value that the wrap rule binds: the result of the siblings.
TailValue(inCode, tail) == IF inCode THEN tail.v ELSE ContentV(tail.v)

\* The body of the wrap rule e, evaluated where the siblings left off and
\* with their result bound to the name of the rule in the top frame.
EvalBody(inCode, e, tail) ==
    Expr_eval([tail.vm EXCEPT
                  !.scopes.top = (e.name :> TailValue(inCode, tail)) @@ @],
              e.body, <<>>)

\* The output of the block: what came before the rule, and the body.
OutputIs(inCode, res, before, body) ==
    IF inCode
    THEN IF join(before.v, body.v).ok
         THEN res.st = "Ok" /\ res.v = join(before.v, body.v).v
         ELSE res.st = "Err"
    ELSE /\ res.st = "Ok"
         /\ res.v = ContentSequence(Flatten(<<before.v>>) \o <<display(body.v)>>)

\* The call ended as the body did, with the output of the body alone
\* after what came before the rule.
EndsAsBody(inCode, res, before, body) ==
    IF body.st # "Ok" THEN res.st = body.st
    ELSE /\ OutputIs(inCode, res, before, body)
         /\ res.st = "Ok" =>
               /\ res.vm.scopes = body.vm.scopes
               /\ res.vm.flow.t = body.vm.flow.t

\* The call ended as the siblings evaluated first and the body after them.
TailThenBody(inCode, res, e, before, tail) ==
    IF tail.st # "Ok" THEN res.st = tail.st
    ELSE EndsAsBody(inCode, res, before, EvalBody(inCode, e, tail))

\* The wrap rule at i is reached: what comes before it returns a value
\* and raises no flow.
Reached(before) == before.st = "Ok" /\ ~FlowPending(before.vm)

WrapOrdered(inCode, res, m, exprs, i, before) ==
    Reached(before) =>
        TailThenBody(inCode, res, exprs[i], before,
                     EvalAfter(inCode, before.vm, exprs, i))

\* C24: for the first wrap rule `wrap name in body` of a markup or code
\* block, at position i and reached, the call ends as if all siblings
\* after i were evaluated first, in the scopes as they are before the
\* rule; then their result bound to `name` in the top frame; then `body`
\* evaluated.  So the siblings do not see the binding, the body sees it
\* and the bindings of the siblings, and the output of the block from
\* position i on is the (displayed) value of `body` alone.
C24_WrapOrder ==
    (WrapCall /\ Wraps(input.exprs) # {}) =>
        WrapOrdered(call = "wrap_code", result, vm, input.exprs,
                    FirstWrap(input.exprs),
                    EvalBefore(call = "wrap_code", vm, input.exprs,
                               FirstWrap(input.exprs)))

\* `wrap w in x`, `let x = 1` and `w` in a code block entered with w = 0
\* in its top frame: the sibling `w` reads 0, not the binding of the rule;
\* the body reads the x that the sibling has bound, and the output is 1,
\* the value of the body alone; w is bound to the 0 the siblings yielded.
C24_Witness ==
    /\ WrapCall
    /\ call = "wrap_code"
    /\ input.exprs = <<WrapRule("w", Ident("x")), LetBinding("x", <<One>>),
                       Ident("w")>>
    /\ vm.scopes.top # EmptyScope
    /\ result.st = "Ok"
    /\ result.v = IntV(1)
    /\ result.vm.scopes.top["w"] = IntV(0)

----------------------------------------------------------------------------
(* An assignment that fails.                                               *)

\* The location that the left-hand side of the assignment names, accessed
\* after the right-hand side.
LeftLocation == Access(RightResult.vm, input.lhs, <<1>>)

\* The location loc holds after the call what it held once accessed.
SlotKept(left, after) ==
    left.st = "Ok" => LocGet(after, left.loc) = LocGet(left.vm.scopes, left.loc)

\* C25: when an assignment returns an error, the binding or the slot that
\* its left-hand side names holds the value it held before.  The
\* right-hand sides looked at have evaluated and have written nothing.
C25_SlotKeptOnError ==
    (AssignCall /\ result.st = "Err" /\ RightResult.st = "Ok"
        /\ RightResult.vm.scopes = vm.scopes) =>
            SlotKept(LeftLocation, result.vm.scopes)

----------------------------------------------------------------------------
(* The depth of the scope stack around blocks and for loops.               *)

\* A code block, content block or for loop has been evaluated: it has
\* returned a value or an error.
BlockOrLoopCall ==
    /\ pc = "done" /\ call = "Expr_eval"
    /\ input.t \in {"Code", "Content", "For"}

\* The number of frames of a scope stack.
Depth(s) == Len(Frames(s))

\* C26: after a code block, a content block or a for loop has been
\* evaluated the scope stack is as deep as it was before, whether the
\* evaluation returned a value or an error.
C26_DepthRestored ==
    BlockOrLoopCall => Depth(result.vm.scopes) = Depth(vm.scopes)

----------------------------------------------------------------------------
(* Break, continue and return while a flow is pending.                     *)

MaxStmts == 2

\* Break, continue and return statements; the body of a return assigns,
\* fails, or holds further statements.
FlowStmts ==
    {BreakStmt, ContinueStmt, ReturnStmt(<<>>), ReturnStmt(<<One>>),
     ReturnStmt(<<Assign("x", False)>>), ReturnStmt(<<Undefined>>),
     ReturnStmt(<<BreakStmt>>),
     ReturnStmt(<<ArrayExpr(<<ContinueStmt, ReturnStmt(<<StrA>>)>>)>>)}

\* Expr::eval applied to one statement.
CallFlowStmt ==
    /\ pc = "idle"
    /\ \E e \in FlowStmts, m \in EntryVms :
          Called("flow_stmt", e, m, Expr_eval(m, e, <<>>))

\* Expr::eval applied to an array whose items are statements: the items
\* are evaluated one after the other whatever flow is pending.
CallFlowArray ==
    /\ pc = "idle"
    /\ \E stmts \in Seqs(FlowStmts, MaxStmts), m \in EntryVms :
          Called("flow_stmt", ArrayExpr(stmts), m,
                 Expr_eval(m, ArrayExpr(stmts), <<>>))

FlowNext == CallFlowStmt \/ CallFlowArray

FlowSpec == Init /\ [][FlowNext]_vars

\* The call was on a statement or an array of statements.
FlowCall == pc = "done" /\ call = "flow_stmt"

\* The expression at path q of expression e: the items of an array and
\* the body of a return are its children.
RECURSIVE StmtAt(_, _)
StmtAt(e, q) ==
    IF q = <<>> THEN e
    ELSE IF e.t = "Array" /\ q[1] \in DOMAIN e.exprs
    THEN StmtAt(e.exprs[q[1]], Tail(q))
    ELSE IF e.t = "Return" /\ q[1] \in DOMAIN e.init
    THEN StmtAt(e.init[q[1]], Tail(q))
    ELSE [t |-> "Nothing"]

IsFlowStmt(e) == e.t \in {"Break", "Continue", "Return"}

\* Event a is the entry of a break, continue or return statement with a
\* flow pending.
EnteredPending(e, a) ==
    /\ Trace[a].ph = "enter"
    /\ Trace[a].flow # NoFlow
    /\ IsFlowStmt(StmtAt(e, Trace[a].p))

\* The flow pending when the statement entered at event a returns is the
\* one that was pending when it was entered.
FlowKept(a) ==
    \A b \in a + 1 .. Len(Trace) :
        (Trace[b].ph = "exit" /\ Trace[b].p = Trace[a].p) =>
            Trace[b].flow = Trace[a].flow

\* The body of the return statement entered at event a is evaluated next.
BodyEvaluated(e, a) ==
    Len(StmtAt(e, Trace[a].p).init) = 1 =>
        /\ a < Len(Trace)
        /\ Trace[a + 1].ph = "enter"
        /\ Trace[a + 1].p = Trace[a].p \o <<1>>

\* Every statement of e entered with a flow pending keeps it, and every
\* return among them evaluates its body.
FirstFlowWins(e) ==
    \A a \in DOMAIN Trace :
        EnteredPending(e, a) =>
            /\ FlowKept(a)
            /\ StmtAt(e, Trace[a].p).t = "Return" => BodyEvaluated(e, a)

\* C27: a break, continue or return statement evaluated while a flow is
\* pending leaves that flow pending, and a return statement evaluates its
\* body all the same.  A call entered with a flow pending ends with that
\* flow pending, whether it returns a value or an error.
C27_FirstFlowWins ==
    FlowCall =>
        /\ FirstFlowWins(input)
        /\ vm.flow # NoFlow => result.vm.flow = vm.flow

\* `return x = false` was evaluated with a break pending and x bound to
\* true: the break is still pending and x is false.
C27_Witness ==
    /\ FlowCall
    /\ input = ReturnStmt(<<Assign("x", False)>>)
    /\ vm.flow = BreakF(<<0>>)
    /\ ScopesGet(vm.scopes, "x").v = BoolV(TRUE)
    /\ result.st = "Ok"
    /\ result.vm.flow = BreakF(<<0>>)
    /\ ScopesGet(result.vm.scopes, "x").v = BoolV(FALSE)

----------------------------------------------------------------------------
(* The route of nested evaluations.                                        *)

\* No source id occurs twice on the route.
Distinct(route) ==
    \A i, j \in DOMAIN route : route[i] = route[j] => i = j

\* The events of the log that record a route: the import and include
\* statements executed and the roots evaluated.
Routed == {a \in DOMAIN Trace : Trace[a].ph \in {"import", "root"}}

\* The statement at event a goes on to eval with a source that is not on
\* its route.
EntersFresh(a) ==
    \A k \in DOMAIN Trace[a].route : Trace[a].route[k] # Trace[a].target

\* The number of eval calls that are active in the Vm that logged event a.
Nesting(a) == Len(Trace[a].stack)

\* C28: evaluating the root of an import graph with an empty route, the
\* source ids on the route of every Vm are pairwise distinct, every
\* import or include that goes on to eval does so with a source that is
\* not on the route, eval never panics, and no more eval calls are nested
\* than there are sources.
C28_RouteDistinct ==
    GraphCall =>
        /\ result.st \in {"Ok", "Err"}
        /\ \A a \in Routed : Distinct(Trace[a].route)
        /\ \A a \in Imports :
              /\ Trace[a].outcome = "eval" => EntersFresh(a)
              /\ Nesting(a) <= Len(world)

\* Source 1 loads 2, 2 loads 3 and 3 loads 1: three eval calls were
\* nested when the last statement was refused as cyclic.
C28_Witness ==
    /\ GraphCall
    /\ result.st = "Err"
    /\ \E a \in Imports :
          /\ Trace[a].route = <<3, 2, 1>>
          /\ Trace[a].target = 1
          /\ Trace[a].outcome = "cyclic"
          /\ Nesting(a) = MaxSources

----------------------------------------------------------------------------
(* The bookkeeping of reparse_markup_elements.                             *)

\* The summed lengths of the first n reference nodes.
ReferenceLen(n) == SumLen(SubSeq(input.reference, 1, n))

\* At the point pt of the inner loop the offset is the differential plus
\* the lengths of the reference nodes taken before the one at hand.
OffsetInStep(pt) == pt.offset = input.differential + ReferenceLen(pt.before)

\* The count is at least one where it is decremented.
DecrementSafe(pt) == pt.dec => pt.replaced >= 1

\* The call has stopped at a converged node.
Stopped(r) == \E k \in DOMAIN r.points : r.points[k].dec

\* The returned nodes are as long as the replaced reference nodes and the
\* differential together.
LengthsAgree(r) ==
    SumLen(r.nodes) = ReferenceLen(r.replaced) + input.differential

Bookkept(r) ==
    /\ \A k \in DOMAIN r.points :
          OffsetInStep(r.points[k]) /\ DecrementSafe(r.points[k])
    /\ (r.some /\ Stopped(r)) => LengthsAgree(r)

\* C29: at every point of the inner loop of reparse_markup_elements the
\* offset is the differential plus the summed lengths of the reference
\* nodes taken before the one at hand, the count of replaced nodes is at
\* least one where it is decremented, and when the call returns nodes
\* after convergence their summed length is that of the first `replaced`
\* reference nodes plus the differential.
C29_LengthsAgree == ElementsCall => Bookkept(result)

\* ` xx` reparsed with end_pos 0 against the reference nodes `x` and `xx`
\* shifted by 0: the parsed `xx` converges with the second reference
\* node, and the space returned is as long as the one node replaced.
C29_Witness ==
    /\ ElementsCall
    /\ input.text = <<" ", "x", "x">>
    /\ input.differential = 0
    /\ Len(input.reference) = 2
    /\ input.reference[1].len = 1
    /\ input.reference[2].len = 2
    /\ result.some /\ Stopped(result)
    /\ result.replaced = 1
    /\ SumLen(result.nodes) = 1

----------------------------------------------------------------------------
(* Runs of `=` that form no heading.                                       *)

\* The nodes whose children are markup nodes.
MarkupParents ==
    {"Markup", "Heading", "ListItem", "EnumItem", "DescItem", "Strong", "Emph"}

\* A Text node that holds nothing but `=`: the fallback of heading.
IsEqText(node) ==
    /\ node.kind = "Text"
    /\ node.text # <<>>
    /\ \A i \in DOMAIN node.text : node.text[i] = "="

\* Child i of node is an Eq token that is not part of the marker of a
\* heading: of the run of Eq tokens a Heading begins with.
StrayEq(node, i) ==
    /\ node.kind \in MarkupParents
    /\ node.children[i].kind = "Eq"
    /\ ~(node.kind = "Heading" /\ \A j \in 1 .. i : node.children[j].kind = "Eq")

RECURSIVE RunsAreText(_, _)
\* Below `node`, every Text that stands for a run of at most `most`
\* characters `=` is as long as its text, and no Eq token of a run that
\* forms no heading is a child of its own.
RunsAreText(node, most) ==
    \A i \in DOMAIN node.children :
        /\ ~StrayEq(node, i)
        /\ (IsEqText(node.children[i]) /\ Len(node.children[i].text) <= most) =>
              node.children[i].len = Len(node.children[i].text)
        /\ RunsAreText(node.children[i], most)

\* C30: in a parsed text every run of `=` that forms no heading is one
\* Text child that holds the run and is as long as the run, and no Eq
\* token of the run is a child of its own.
C30_RunIsOneText == Parsed => RunsAreText(Tree, Len(SourceText))


============================================================================
